---- MODULE Spec2Model ----
(***************************************************************************)
(* Model of the request pipeline of the JIRA client                        *)
(* (src/jira_mcp/client/jira_client.py, JiraClient._request and helpers).  *)
(*                                                                         *)
(* One _request call is followed from its entry to its result.  The call   *)
(* is recursive in the source; the recursion is a tail call, so the model  *)
(* keeps the parameter retry_count of the innermost frame.  The awaits of  *)
(* the source (client.request, asyncio.sleep) are the points where the     *)
(* call is suspended, hence the steps of the model.                        *)
(***************************************************************************)
EXTENDS Integers, Sequences, FiniteSets, TLC

VARIABLES
    max_retries,    \* config.max_retries, fixed at construction
    pc,             \* position of the call: idle, send, wait, backoff, done
    endpoint,       \* the endpoint argument of the call (sequence of characters)
    retry_count,    \* the retry_count parameter of the current frame
    response,       \* outcome of the last HTTP attempt (response or exception)
    result,         \* what the call delivered to its caller
    attempts,       \* history: number of client.request calls made by this call
    sleeps,         \* history: the delays slept by this call, in order
    seen,           \* history: kinds of retryable failure met by this call
    config,         \* the JiraConfig the client was constructed from
    headers,        \* self.headers of the client
    op,             \* the client operation in progress
    opargs,         \* the arguments the operation was called with
    args,           \* method, params, json_data, files of the _request call
    sent,           \* the request the HTTP layer last put on the wire
    calls,          \* the frames of the _request calls running concurrently
    server,         \* the MCP server: settings, lifespan, the JiraClients built
    tool            \* the tool invocation in progress

vars == <<max_retries, pc, endpoint, retry_count, response, result,
          attempts, sleeps, seen, config, headers, op, opargs, args, sent,
          calls, server, tool>>

\* what the steps of the single call followed above leave alone
outside == <<calls, server, tool>>

\* what a step of one call leaves alone: the client and its configuration
client == <<max_retries, config>>

-----------------------------------------------------------------------------
(* Configuration: JiraConfig.max_retries is validated to ge=0, le=10.      *)

MinRetries == 0

MaxRetriesLimit == 10

MaxBackoff == 30

-----------------------------------------------------------------------------
(* Optional values: None is the empty tuple, Some(x) the one-element tuple. *)

None == <<>>

Some(x) == <<x>>

-----------------------------------------------------------------------------
(* JSON objects.  A dict is a record of optional entries over the keys the  *)
(* pipeline looks at (errorMessages, errors, message) and one payload key.  *)

Dict(em, er, msg, key) ==
    [errorMessages |-> em, errors |-> er, message |-> msg, key |-> key]

EmptyDict == Dict(None, None, None, None)

\* Python truthiness of Optional[dict]: None and {} are falsy.
Truthy(opt) == opt # None /\ opt[1] # EmptyDict

\* The response bodies the HTTP layer may deliver (response.content).
Bodies ==
    { "",
      "{}",
      "{\"key\": \"PROJ-1\"}",
      "{\"errorMessages\": [\"Issue does not exist\"], \"errors\": {}}",
      "<html>Bad Gateway</html>" }

\* The error bodies the client specification adds to them.
ErrorBodies ==
    { "{\"errorMessages\": [], \"errors\": {\"summary\": \"required\", \"project\": \"invalid\"}}",
      "{\"message\": \"bad request\"}",
      "{\"errorMessages\": [\"a\", \"b\"], \"errors\": {\"x\": \"y\"}, \"message\": \"m\"}",
      "{\"errorMessages\": [], \"errors\": {}}" }

ClientBodies == Bodies \cup ErrorBodies

\* response.json(): the parsed object, or None standing for the decode error
\* that json.loads raises on an empty or non-JSON body.
JsonLoads(content) ==
    CASE content = "{}" -> Some(EmptyDict)
      [] content = "{\"key\": \"PROJ-1\"}" ->
            Some(Dict(None, None, None, Some("PROJ-1")))
      [] content = "{\"errorMessages\": [\"Issue does not exist\"], \"errors\": {}}" ->
            Some(Dict(Some(<<"Issue does not exist">>), Some(<<>>), None, None))
      [] content = "{\"errorMessages\": [], \"errors\": {\"summary\": \"required\", \"project\": \"invalid\"}}" ->
            Some(Dict(Some(<<>>),
                      Some(<< <<"summary", "required">>, <<"project", "invalid">> >>),
                      None, None))
      [] content = "{\"message\": \"bad request\"}" ->
            Some(Dict(None, None, Some("bad request"), None))
      [] content = "{\"errorMessages\": [\"a\", \"b\"], \"errors\": {\"x\": \"y\"}, \"message\": \"m\"}" ->
            Some(Dict(Some(<<"a", "b">>), Some(<< <<"x", "y">> >>), Some("m"), None))
      [] content = "{\"errorMessages\": [], \"errors\": {}}" ->
            Some(Dict(Some(<<>>), Some(<<>>), None, None))
      [] OTHER -> None

\* _safe_json: response.json() with every exception turned into None.
SafeJson(content) == JsonLoads(content)

-----------------------------------------------------------------------------
(* Endpoint resolution.  Endpoints and URLs are sequences of characters.   *)

HttpPrefix == <<"h", "t", "t", "p">>

RestPrefix == <<"/", "r", "e", "s", "t", "/">>

ApiBase == <<"/", "r", "e", "s", "t", "/", "a", "p", "i", "/", "2">>

Endpoints ==
    { <<"/", "i", "s", "s", "u", "e", "/", "P", "R", "O", "J", "-", "9", "9", "9">>,
      <<"/", "r", "e", "s", "t", "/", "a", "g", "i", "l", "e", "/", "b">>,
      <<"h", "t", "t", "p", "s", ":", "/", "/", "j", "/", "a">> }

StartsWith(s, prefix) ==
    /\ Len(s) >= Len(prefix)
    /\ SubSeq(s, 1, Len(prefix)) = prefix

\* the REST root never prepended
ResolveUrlVerbatim(ep) == ep

ResolveUrl(ep) ==
    IF StartsWith(ep, HttpPrefix) THEN ep
    ELSE IF StartsWith(ep, RestPrefix) THEN ep
    ELSE ApiBase \o ep

-----------------------------------------------------------------------------
(* Configuration and authentication headers (config.py, utils/auth.py).    *)
(* Credentials and URLs are sequences of characters; a header value is a   *)
(* sequence of string fragments, as messages are.                          *)

CloudUrl ==
    <<"h", "t", "t", "p", "s", ":", "/", "/", "a", ".",
      "a", "t", "l", "a", "s", "s", "i", "a", "n", ".", "n", "e", "t">>

ServerUrl ==
    <<"h", "t", "t", "p", "s", ":", "/", "/", "j", "i", "r", "a", ".", "c", "o", "r", "p">>

CloudMarker == <<"a", "t", "l", "a", "s", "s", "i", "a", "n", ".", "n", "e", "t">>

\* sub in s (Python's substring test)
Contains(s, sub) ==
    \E i \in 1..(Len(s) - Len(sub) + 1) : SubSeq(s, i, i + Len(sub) - 1) = sub

JiraConfig(url, username, api_token, pat) ==
    [url |-> url, username |-> username, api_token |-> api_token,
     personal_access_token |-> pat]

\* The configurations a client is constructed from.
Configs ==
    { JiraConfig(url, username, <<"t", "0", "k">>, pat) :
        url \in {CloudUrl, ServerUrl},
        username \in { <<"a", "l">>, <<"b", "o", "b">> },
        pat \in {None, Some(<<"p", "a", "t">>)} }

\* the configuration the pipeline properties are explored with
DefaultConfig == JiraConfig(ServerUrl, <<"a", "l">>, <<"t", "0", "k">>, None)

\* JiraConfig.is_cloud
IsCloud(cfg) == Contains(cfg.url, CloudMarker)

\* JiraConfig.use_pat
UsePat(cfg) == cfg.personal_access_token # None

\* str.encode(): the code points of the characters that occur in credentials
Ord(c) ==
    CASE c = "a" -> 97 [] c = "b" -> 98 [] c = "k" -> 107 [] c = "l" -> 108
      [] c = "o" -> 111 [] c = "p" -> 112 [] c = "t" -> 116 [] c = "0" -> 48
      [] c = ":" -> 58

EncodeUtf8(chars) == [i \in 1..Len(chars) |-> Ord(chars[i])]

B64Alphabet ==
    <<"A", "B", "C", "D", "E", "F", "G", "H", "I", "J", "K", "L", "M", "N", "O", "P",
      "Q", "R", "S", "T", "U", "V", "W", "X", "Y", "Z", "a", "b", "c", "d", "e", "f",
      "g", "h", "i", "j", "k", "l", "m", "n", "o", "p", "q", "r", "s", "t", "u", "v",
      "w", "x", "y", "z", "0", "1", "2", "3", "4", "5", "6", "7", "8", "9", "+", "/">>

B64Char(n) == B64Alphabet[n + 1]

RECURSIVE B64Encode(_)
\* base64.b64encode(bytes).decode(): three bytes make four characters, a
\* shorter last group is padded with "="
B64Encode(bytes) ==
    IF bytes = <<>> THEN <<>>
    ELSE IF Len(bytes) = 1
    THEN LET n == bytes[1] * 65536
         IN  <<B64Char(n \div 262144), B64Char((n \div 4096) % 64), "=", "=">>
    ELSE IF Len(bytes) = 2
    THEN LET n == bytes[1] * 65536 + bytes[2] * 256
         IN  <<B64Char(n \div 262144), B64Char((n \div 4096) % 64),
               B64Char((n \div 64) % 64), "=">>
    ELSE LET n == bytes[1] * 65536 + bytes[2] * 256 + bytes[3]
         IN  <<B64Char(n \div 262144), B64Char((n \div 4096) % 64),
               B64Char((n \div 64) % 64), B64Char(n % 64)>>
             \o B64Encode(SubSeq(bytes, 4, Len(bytes)))

\* the credentials joined without the colon
CredentialsNoColon(cfg) == cfg.username \o cfg.api_token

\* credentials = f"{config.username}:{config.api_token}"
Credentials(cfg) == cfg.username \o <<":">> \o cfg.api_token

\* header names the client uses
HAccept == "Accept"

HContentType == "Content-Type"

HAuthorization == "Authorization"

HAtlassianToken == "X-Atlassian-Token"

JsonType == <<"application/json">>

\* get_auth_headers(config)
GetAuthHeaders(cfg) ==
    (HAccept :> JsonType) @@ (HContentType :> JsonType) @@
    (HAuthorization :>
        IF UsePat(cfg)
        THEN <<"Bearer ">> \o cfg.personal_access_token[1]
        ELSE <<"Basic ">> \o B64Encode(EncodeUtf8(Credentials(cfg))))

-----------------------------------------------------------------------------
(* Messages are sequences of string fragments (the pieces of an f-string). *)

RECURSIVE JoinComma(_)
\* ", ".join(items) for a sequence of fragments
JoinComma(items) ==
    IF items = <<>> THEN <<>>
    ELSE IF Len(items) = 1 THEN <<items[1]>>
    ELSE <<items[1], ", ">> \o JoinComma(Tail(items))

\* repr of a list of strings
ReprList(items) ==
    <<"[">> \o JoinComma([i \in 1..Len(items) |-> "'" \o items[i] \o "'"]) \o <<"]">>

\* repr of a dict of strings
ReprMap(pairs) ==
    <<"{">>
    \o JoinComma([i \in 1..Len(pairs) |->
                    "'" \o pairs[i][1] \o "': '" \o pairs[i][2] \o "'"])
    \o <<"}">>

\* str(error_data) for a dict: the entries present, in the order of the body
StrDict(d) ==
    LET em  == IF d.errorMessages = None THEN <<>>
               ELSE << <<"'errorMessages': ">> \o ReprList(d.errorMessages[1]) >>
        er  == IF d.errors = None THEN <<>>
               ELSE << <<"'errors': ">> \o ReprMap(d.errors[1]) >>
        msg == IF d.message = None THEN <<>>
               ELSE << <<"'message': '" \o d.message[1] \o "'">> >>
        key == IF d.key = None THEN <<>>
               ELSE << <<"'key': '" \o d.key[1] \o "'">> >>
        entries == em \o er \o msg \o key
        RECURSIVE Flat(_)
        Flat(es) == IF es = <<>> THEN <<>>
                    ELSE IF Len(es) = 1 THEN es[1]
                    ELSE es[1] \o <<", ">> \o Flat(Tail(es))
    IN  <<"{">> \o Flat(entries) \o <<"}">>

\* the "message" entry looked at first
ExtractMessageFirst(error_data) ==
    IF ~Truthy(error_data) THEN <<"Unknown error">>
    ELSE LET d == error_data[1] IN
         IF d.message # None
         THEN <<d.message[1]>>
         ELSE IF d.errorMessages # None /\ d.errorMessages[1] # <<>>
         THEN JoinComma(d.errorMessages[1])
         ELSE IF d.errors # None /\ d.errors[1] # <<>>
         THEN JoinComma([i \in 1..Len(d.errors[1]) |->
                           d.errors[1][i][1] \o ": " \o d.errors[1][i][2]])
         ELSE StrDict(d)

ExtractErrorMessage(error_data) ==
    IF ~Truthy(error_data) THEN <<"Unknown error">>
    ELSE LET d == error_data[1] IN
         IF d.errorMessages # None /\ d.errorMessages[1] # <<>>
         THEN JoinComma(d.errorMessages[1])
         ELSE IF d.errors # None /\ d.errors[1] # <<>>
         THEN JoinComma([i \in 1..Len(d.errors[1]) |->
                           d.errors[1][i][1] \o ": " \o d.errors[1][i][2]])
         ELSE IF d.message # None
         THEN <<d.message[1]>>
         ELSE StrDict(d)

-----------------------------------------------------------------------------
(* What one frame of _request does with the outcome of its HTTP attempt:   *)
(* return a value, raise an exception, or back off and call itself again.  *)

Return(value) == [kind |-> "return", value |-> value]

Raise(type, message, status_code, response_data) ==
    [kind |-> "raise", type |-> type, message |-> message,
     status_code |-> status_code, response_data |-> response_data]

Retry == [kind |-> "retry"]

Pending == [kind |-> "pending"]

\* off by one: retries while retry_count <= max_retries
CanRetryInclusive(rc, maxr) == rc <= maxr

\* off by one the other way: gives up one retry early
CanRetryEarlyStop(rc, maxr) == rc + 1 < maxr

\* retry_count < self.config.max_retries
CanRetry(rc, maxr) == rc < maxr

\* the cap forgotten
BackoffUncapped(rc) == 2^rc

\* delay = min(2**retry_count, 30)
BackoffDelay(rc) == IF 2^rc < MaxBackoff THEN 2^rc ELSE MaxBackoff

\* return response.json() if response.content else {}
\* (json.loads raises JSONDecodeError, which no handler of _request catches)
SuccessResult(content) ==
    IF content # ""
    THEN IF JsonLoads(content) = None
         THEN Raise("JSONDecodeError", <<"Expecting value">>, None, None)
         ELSE Return(JsonLoads(content)[1])
    ELSE Return(EmptyDict)

\* 204 handled like 200: the body is parsed
NoContentParsesBody(content) == SuccessResult(content)

\* return {}  # No content
NoContentResult(content) == Return(EmptyDict)

AuthenticationError(content) ==
    Raise("JiraAuthenticationError", <<"Authentication failed. Check credentials.">>,
          Some(401), SafeJson(content))

PermissionError(content) ==
    Raise("JiraPermissionError", <<"Permission denied. Check user permissions.">>,
          Some(403), SafeJson(content))

\* the base class raised instead of the typed error
NotFoundAsGeneric(url, content) ==
    Raise("JiraAPIError", <<"Resource not found: ">> \o url,
          Some(404), SafeJson(content))

NotFoundError(url, content) ==
    Raise("JiraNotFoundError", <<"Resource not found: ">> \o url,
          Some(404), SafeJson(content))

ValidationError(content) ==
    Raise("JiraValidationError",
          <<"Validation error: ">> \o ExtractErrorMessage(SafeJson(content)),
          Some(400), SafeJson(content))

\* the body of the response dropped from the error
RateLimitNoData(content) ==
    Raise("JiraRateLimitError", <<"Rate limit exceeded">>, Some(429), None)

RateLimitError(content) ==
    Raise("JiraRateLimitError", <<"Rate limit exceeded">>, Some(429), SafeJson(content))

\* the status code of the response replaced by a fixed 500
ServerErrorFixed500(status, content) ==
    Raise("JiraAPIError", <<"Server error: ", ToString(status)>>,
          Some(500), SafeJson(content))

ServerError(status, content) ==
    Raise("JiraAPIError", <<"Server error: ", ToString(status)>>,
          Some(status), SafeJson(content))

UnexpectedStatusError(status, content) ==
    Raise("JiraAPIError", <<"Unexpected status code: ", ToString(status)>>,
          Some(status), SafeJson(content))

\* the message cites the retries made, not the attempts
TimeoutCitesRetries(rc) ==
    Raise("JiraAPIError", <<"Request timeout after ", ToString(rc), " attempts">>,
          None, None)

TimeoutError(rc) ==
    Raise("JiraAPIError", <<"Request timeout after ", ToString(rc + 1), " attempts">>,
          None, None)

NetworkFailure(rc) ==
    Raise("JiraAPIError", <<"Network error after ", ToString(rc + 1), " attempts">>,
          None, None)

\* every client error treated as a server error
IsServerStatusFrom400(status) == status >= 400

\* elif response.status_code >= 500
IsServerStatus(status) == status >= 500

\* the if/elif chain over response.status_code
HandleResponse(status, content, url, rc, maxr) ==
    IF status = 200 THEN SuccessResult(content)
    ELSE IF status = 201 THEN SuccessResult(content)
    ELSE IF status = 204 THEN NoContentResult(content)
    ELSE IF status = 401 THEN AuthenticationError(content)
    ELSE IF status = 403 THEN PermissionError(content)
    ELSE IF status = 404 THEN NotFoundError(url, content)
    ELSE IF status = 400 THEN ValidationError(content)
    ELSE IF status = 429
         THEN IF CanRetry(rc, maxr) THEN Retry ELSE RateLimitError(content)
    ELSE IF IsServerStatus(status)
         THEN IF CanRetry(rc, maxr) THEN Retry ELSE ServerError(status, content)
    ELSE UnexpectedStatusError(status, content)

\* The exceptions client.request may raise: the two classes _request handles
\* and one httpx.TransportError outside both (it leaves _request as it is).
Exceptions == {"TimeoutException", "NetworkError", "ProtocolError"}

\* timeouts and network errors retried without looking at the budget
HandleExceptionUnbudgeted(exc, rc, maxr) ==
    IF exc \in {"TimeoutException", "NetworkError"} THEN Retry
    ELSE Raise(exc, <<exc>>, None, None)

\* the except clauses
HandleException(exc, rc, maxr) ==
    IF exc = "TimeoutException"
    THEN IF CanRetry(rc, maxr) THEN Retry ELSE TimeoutError(rc)
    ELSE IF exc = "NetworkError"
    THEN IF CanRetry(rc, maxr) THEN Retry ELSE NetworkFailure(rc)
    ELSE Raise(exc, <<exc>>, None, None)

-----------------------------------------------------------------------------
(* The arguments of _request and the request that goes on the wire.        *)

\* Python truthiness of an optional dict argument: None and {} are falsy.
ArgTruthy(x) == x # None /\ x[1] # "{}"

RequestArgs(method, params, json_data, files) ==
    [method |-> method, params |-> params, json_data |-> json_data, files |-> files]

NoArgs == RequestArgs("", None, None, None)

\* a mapping without one key
Without(h, k) == [x \in DOMAIN h \ {k} |-> h[x]]

\* the kwargs _request passes to self.client.request
BuildKwargs(self_headers, a) ==
    [params  |-> a.params,
     headers |-> IF ArgTruthy(a.files)
                 THEN Some(Without(self_headers, HContentType)) ELSE None,
     files   |-> IF ArgTruthy(a.files) THEN a.files ELSE None,
     data    |-> IF ArgTruthy(a.files) /\ ArgTruthy(a.json_data)
                 THEN a.json_data ELSE None,
     json    |-> IF ~ArgTruthy(a.files) /\ ArgTruthy(a.json_data)
                 THEN a.json_data ELSE None]

\* kwargs of a call that passes none of them
NoKwargs == [params |-> None, headers |-> None, files |-> None, data |-> None,
             json |-> None]

\* Content-Type popped from the shared dict for a file upload
SharedHeadersPopped(self_headers, a) ==
    IF ArgTruthy(a.files) THEN Without(self_headers, HContentType) ELSE self_headers

\* self.headers after _request prepared a request: the comprehension builds
\* a new dict, the shared one is left as it is
SharedHeadersAfter(self_headers, a) == self_headers

\* httpx: how the body of a request is encoded (encode_request)
BodyEncoding(kw) ==
    IF ArgTruthy(kw.files) THEN "multipart"
    ELSE IF ArgTruthy(kw.data) THEN "urlencoded"
    ELSE IF kw.json # None THEN "json"
    ELSE "none"

\* httpx: the Content-Type the encoder proposes for a body
AutoContentType(encoding) ==
    CASE encoding = "multipart" -> <<"multipart/form-data; boundary=", "generated">>
      [] encoding = "urlencoded" -> <<"application/x-www-form-urlencoded">>
      [] encoding = "json" -> JsonType

\* httpx: the request built by AsyncClient.request.  The headers given with
\* the call are merged over the headers the client was constructed with
\* (headers=self.headers), and the encoder's Content-Type is a default that
\* applies only when the merged headers carry none.
BuildRequest(client_headers, method, url, kw) ==
    LET merged == IF kw.headers = None THEN client_headers
                  ELSE kw.headers[1] @@ client_headers
        enc    == BodyEncoding(kw)
    IN  [method  |-> method,
         url     |-> url,
         params  |-> kw.params,
         body    |-> enc,
         kw_headers |-> kw.headers,
         headers |-> IF enc = "none" THEN merged
                     ELSE merged @@ (HContentType :> AutoContentType(enc))]

NoRequest == [method |-> "", url |-> <<>>, params |-> None, body |-> "none",
              kw_headers |-> None, headers |-> <<>>]

-----------------------------------------------------------------------------
(* The status codes the HTTP layer may answer with.                        *)

Statuses ==
    {200, 201, 202, 204, 206, 302, 400, 401, 403, 404, 409, 418, 429, 499,
     500, 503}

\* kind of retryable failure of an outcome, as a set (empty when not retryable)
FailureKind(resp) ==
    IF resp.kind = "exception"
    THEN IF resp.exc = "TimeoutException" THEN {"timeout"}
         ELSE IF resp.exc = "NetworkError" THEN {"network"}
         ELSE {}
    ELSE IF resp.status_code = 429 THEN {"429"}
         ELSE IF resp.status_code >= 500 THEN {"5xx"}
         ELSE {}

NoResponse == [kind |-> "none"]

HttpResponse(status, content) ==
    [kind |-> "response", status_code |-> status, content |-> content]

HttpException(exc) == [kind |-> "exception", exc |-> exc]

-----------------------------------------------------------------------------

(* search_issues, add_attachment and download_attachment.                  *)

RECURSIVE JoinWith(_, _)
\* sep.join(items)
JoinWith(items, sep) ==
    IF items = <<>> THEN <<>>
    ELSE IF Len(items) = 1 THEN <<items[1]>>
    ELSE <<items[1], sep>> \o JoinWith(Tail(items), sep)

\* default_fields of search_issues
DefaultFields ==
    <<"summary", "status", "priority", "issuetype", "assignee", "reporter",
      "created", "updated", "description", "labels", "components", "project",
      "resolution", "resolutiondate">>

SearchJqlEndpoint ==
    <<"/", "r", "e", "s", "t", "/", "a", "p", "i", "/", "3", "/",
      "s", "e", "a", "r", "c", "h", "/", "j", "q", "l">>

LegacySearchEndpoint == <<"/", "s", "e", "a", "r", "c", "h">>

\* a list that is not None counted as supplied
ListNotNone(x) == x # None

\* Python truthiness of Optional[list]: None and [] are falsy.
ListTruthy(x) == x # None /\ x[1] # <<>>

\* the params search_issues builds; "fields" is absent (None) unless set
SearchParams(cfg, jql, fields, max_results, start_at) ==
    [jql |-> jql, maxResults |-> max_results, startAt |-> start_at,
     fields |-> IF IsCloud(cfg)
                THEN Some(JoinWith(IF ListTruthy(fields) THEN fields[1]
                                   ELSE DefaultFields, ","))
                ELSE IF ListTruthy(fields) THEN Some(JoinWith(fields[1], ","))
                ELSE None]

\* the legacy path used for every instance
SearchEndpointLegacy(cfg) == LegacySearchEndpoint

SearchEndpoint(cfg) ==
    IF IsCloud(cfg) THEN SearchJqlEndpoint ELSE LegacySearchEndpoint

\* the fields arguments a caller of search_issues may pass
FieldArgs == {None, Some(<<>>), Some(<<"summary", "status">>)}

\* endpoint = f"/rest/api/2/issue/{key}/attachments"
UploadEndpoint(key) ==
    <<"/", "r", "e", "s", "t", "/", "a", "p", "i", "/", "2", "/",
      "i", "s", "s", "u", "e", "/">> \o key
    \o <<"/", "a", "t", "t", "a", "c", "h", "m", "e", "n", "t", "s">>

\* endpoint = f"/attachment/content/{attachment_id}"
DownloadEndpoint(id) ==
    <<"/", "a", "t", "t", "a", "c", "h", "m", "e", "n", "t", "/",
      "c", "o", "n", "t", "e", "n", "t", "/">> \o id

\* the upload passing a copy of the client's headers with the marker added
UploadHeadersCopied(self_headers) ==
    (HAtlassianToken :> <<"no-check">>) @@ self_headers

\* the headers add_attachment passes with its POST
UploadHeaders(self_headers) ==
    IF HAuthorization \in DOMAIN self_headers
    THEN (HAtlassianToken :> <<"no-check">>) @@ (HAccept :> JsonType)
         @@ (HAuthorization :> self_headers[HAuthorization])
    ELSE (HAtlassianToken :> <<"no-check">>) @@ (HAccept :> JsonType)

UploadKwargs(self_headers) ==
    [params |-> None, headers |-> Some(UploadHeaders(self_headers)),
     files |-> Some("{file}"), data |-> None, json |-> None]

\* the response of the upload classified by the chain of _request
HandleUploadAsRequest(status, content) ==
    HandleResponse(status, content, <<>>, 0, 1)

\* add_attachment after the POST: response.json() on 200, JiraAPIError otherwise
HandleUpload(status, content) ==
    IF status = 200
    THEN IF JsonLoads(content) = None
         THEN Raise("JSONDecodeError", <<"Expecting value">>, None, None)
         ELSE Return(JsonLoads(content)[1])
    ELSE Raise("JiraAPIError", <<"Failed to upload attachment: ", ToString(status)>>,
               Some(status), SafeJson(content))

\* download_attachment after the GET: response.raise_for_status(), then
\* the content
HandleDownload(status, content) ==
    IF status >= 200 /\ status <= 299
    THEN Return(content)
    ELSE Raise("HTTPStatusError", <<"status ", ToString(status)>>, None, None)

\* add_attachment and download_attachment have no except clause
PropagateException(exc) == Raise(exc, <<exc>>, None, None)

-----------------------------------------------------------------------------

\* the retry entered without the file payload
RetryCallDropsFiles(ep, a, rc) ==
    [endpoint |-> ep, args |-> [a EXCEPT !.files = None], retry_count |-> rc + 1]

\* self._request(method, endpoint, params, json_data, files, retry_count + 1)
RetryCall(ep, a, rc) ==
    [endpoint |-> ep, args |-> a, retry_count |-> rc + 1]

\* no concurrent call, no server, no tool invocation
NoCalls == <<>>

NoServer == [phase |-> "none"]

NoTool == [pc |-> "none"]

\* A client built by JiraClient(config) on which no call has been made.
ClientIdle(cfg, maxr) ==
    /\ config = cfg
    /\ max_retries = maxr
    /\ headers = GetAuthHeaders(cfg)
    /\ pc = "idle"
    /\ op = "none"
    /\ opargs = <<>>
    /\ endpoint = <<>>
    /\ args = NoArgs
    /\ sent = NoRequest
    /\ retry_count = 0
    /\ response = NoResponse
    /\ result = Pending
    /\ attempts = 0
    /\ sleeps = <<>>
    /\ seen = {}

\* The state after JiraClient(config).
Constructed(cfg, maxr) ==
    /\ ClientIdle(cfg, maxr)
    /\ calls = NoCalls
    /\ server = NoServer
    /\ tool = NoTool

Init == \E maxr \in MinRetries..MaxRetriesLimit : Constructed(DefaultConfig, maxr)

\* _request is entered with the default retry_count.
Enter(name, oa, ep, a) ==
    /\ pc \in {"idle", "done"}
    /\ pc' = "send"
    /\ op' = name
    /\ opargs' = oa
    /\ endpoint' = ep
    /\ args' = a
    /\ sent' = NoRequest
    /\ retry_count' = 0
    /\ response' = NoResponse
    /\ result' = Pending
    /\ attempts' = 0
    /\ sleeps' = <<>>
    /\ seen' = {}
    /\ UNCHANGED <<client, outside, headers>>

\* A caller enters _request(method, endpoint, params, json_data, files).
Call(ep, a) == Enter("_request", <<ep>>, ep, a)

\* search_issues(jql, fields, max_results, start_at)
SearchIssues(fields) ==
    Enter("search_issues", <<fields>>, SearchEndpoint(config),
          RequestArgs("GET", Some(SearchParams(config, "project = P", fields, 50, 0)),
                      None, None))

\* add_attachment(key, file_path): the file is missing, or the POST is issued
AddAttachment(key, exists) ==
    /\ pc \in {"idle", "done"}
    /\ op' = "add_attachment"
    /\ opargs' = <<key, exists>>
    /\ endpoint' = UploadEndpoint(key)
    /\ args' = NoArgs
    /\ retry_count' = 0
    /\ response' = NoResponse
    /\ sleeps' = <<>>
    /\ seen' = {}
    /\ IF exists
       THEN /\ pc' = "wait"
            /\ attempts' = 1
            /\ result' = Pending
            /\ sent' = BuildRequest(headers, "POST", UploadEndpoint(key),
                                    UploadKwargs(headers))
       ELSE /\ pc' = "done"
            /\ attempts' = 0
            /\ result' = Raise("FileNotFoundError", <<"File not found: ">>, None, None)
            /\ sent' = NoRequest
    /\ UNCHANGED <<client, outside, headers>>

\* download_attachment(attachment_id): the GET is issued
DownloadAttachment(id) ==
    /\ pc \in {"idle", "done"}
    /\ op' = "download_attachment"
    /\ opargs' = <<id>>
    /\ endpoint' = DownloadEndpoint(id)
    /\ args' = NoArgs
    /\ retry_count' = 0
    /\ response' = NoResponse
    /\ sleeps' = <<>>
    /\ seen' = {}
    /\ pc' = "wait"
    /\ attempts' = 1
    /\ result' = Pending
    /\ sent' = BuildRequest(headers, "GET", DownloadEndpoint(id), NoKwargs)
    /\ UNCHANGED <<client, outside, headers>>

\* await self.client.request(method, url, **kwargs): the URL is resolved,
\* the kwargs are prepared and the attempt is issued.
Send ==
    /\ pc = "send"
    /\ pc' = "wait"
    /\ attempts' = attempts + 1
    /\ sent' = BuildRequest(headers, args.method, ResolveUrl(endpoint),
                            BuildKwargs(headers, args))
    /\ headers' = SharedHeadersAfter(headers, args)
    /\ UNCHANGED <<client, outside, endpoint, retry_count, response, result, sleeps, seen,
                   op, opargs, args>>

\* The frame acts on the outcome of its attempt.
Settle(resp, out) ==
    /\ response' = resp
    /\ seen' = seen \cup FailureKind(resp)
    /\ IF out.kind = "retry"
       THEN pc' = "backoff" /\ UNCHANGED result
       ELSE pc' = "done" /\ result' = out
    /\ UNCHANGED <<client, outside, endpoint, retry_count, attempts, sleeps, headers, op,
                   opargs, args, sent>>

\* A response arrives; the operation in progress classifies it.
Receive(status, content) ==
    /\ pc = "wait"
    /\ Settle(HttpResponse(status, content),
              IF op = "add_attachment" THEN HandleUpload(status, content)
              ELSE IF op = "download_attachment" THEN HandleDownload(status, content)
              ELSE HandleResponse(status, content, ResolveUrl(endpoint),
                                  retry_count, max_retries))

\* The HTTP call raises instead of returning a response.
TransportError(exc) ==
    /\ pc = "wait"
    /\ Settle(HttpException(exc),
              IF op \in {"add_attachment", "download_attachment"}
              THEN PropagateException(exc)
              ELSE HandleException(exc, retry_count, max_retries))

\* the retry entered at once, with no sleep before it
RetryWithoutSleep ==
    /\ pc = "backoff"
    /\ endpoint' = RetryCall(endpoint, args, retry_count).endpoint
    /\ args' = RetryCall(endpoint, args, retry_count).args
    /\ retry_count' = RetryCall(endpoint, args, retry_count).retry_count
    /\ pc' = "send"
    /\ UNCHANGED <<client, outside, response, result, attempts, sleeps, seen, headers,
                   op, opargs, sent>>

\* await self._backoff(retry_count) completes; the frame calls
\* self._request(..., retry_count + 1).
Backoff ==
    /\ pc = "backoff"
    /\ sleeps' = Append(sleeps, BackoffDelay(retry_count))
    /\ endpoint' = RetryCall(endpoint, args, retry_count).endpoint
    /\ args' = RetryCall(endpoint, args, retry_count).args
    /\ retry_count' = RetryCall(endpoint, args, retry_count).retry_count
    /\ pc' = "send"
    /\ UNCHANGED <<client, outside, response, result, attempts, seen, headers, op,
                   opargs, sent>>

\* a _request with no params, body or files
PlainGet == RequestArgs("GET", None, None, None)

\* The request pipeline alone: _request calls of one client.
Next ==
    \/ \E ep \in Endpoints : Call(ep, PlainGet)
    \/ Send
    \/ \E status \in Statuses, content \in Bodies : Receive(status, content)
    \/ \E exc \in Exceptions : TransportError(exc)
    \/ Backoff

Spec == Init /\ [][Next]_vars

-----------------------------------------------------------------------------
(* The client as a whole: every configuration, every operation, every      *)
(* shape of request, with small retry budgets.                             *)

MaxClientRetries == 1

\* the endpoints of the client specification: Endpoints and one that starts
\* with "http" without being a URL
HttpLikeEndpoint == <<"h", "t", "t", "p", "d", "/", "x">>

ClientEndpoints == Endpoints \cup {HttpLikeEndpoint}

\* the argument shapes of _request
ArgShapes ==
    { PlainGet,
      RequestArgs("POST", None, Some("{fields}"), None),
      RequestArgs("POST", None, Some("{}"), None),
      RequestArgs("POST", None, None, Some("{file}")),
      RequestArgs("POST", None, Some("{fields}"), Some("{file}")) }

IssueEndpoint == <<"/", "i", "s", "s", "u", "e", "/", "P", "R", "O", "J", "-", "9", "9", "9">>

\* the _request calls of the client specification: every endpoint with a
\* plain GET, every argument shape on one endpoint
ClientCalls ==
    { <<ep, PlainGet>> : ep \in ClientEndpoints }
    \cup { <<IssueEndpoint, a>> : a \in ArgShapes }

IssueKeys == { <<"P", "-", "1">> }

ClientInit ==
    \E cfg \in Configs, maxr \in MinRetries..MaxClientRetries : Constructed(cfg, maxr)

ClientNext ==
    \/ \E c \in ClientCalls : Call(c[1], c[2])
    \/ \E fields \in FieldArgs : SearchIssues(fields)
    \/ \E key \in IssueKeys, exists \in BOOLEAN : AddAttachment(key, exists)
    \/ \E id \in { <<"7">> } : DownloadAttachment(id)
    \/ Send
    \/ \E status \in Statuses, content \in ClientBodies : Receive(status, content)
    \/ \E exc \in Exceptions : TransportError(exc)
    \/ Backoff

ClientSpec == ClientInit /\ [][ClientNext]_vars

-----------------------------------------------------------------------------
(* The glue layer: the MCP tools registered by create_server, the gates    *)
(* at the head of every tool, and the lifespan of the server.              *)

\* The raw enabled_tools setting is a sequence of pieces: a comma, a blank
\* or a run of other characters (a tool name).
RECURSIVE SplitComma(_)
\* raw.split(",")
SplitComma(raw) ==
    IF \A i \in 1..Len(raw) : raw[i] # ","
    THEN <<raw>>
    ELSE LET k == CHOOSE i \in 1..Len(raw) :
                      raw[i] = "," /\ \A j \in 1..(i - 1) : raw[j] # ","
         IN  <<SubSeq(raw, 1, k - 1)>> \o SplitComma(SubSeq(raw, k + 1, Len(raw)))

RECURSIVE Strip(_)
\* t.strip()
Strip(t) ==
    IF t = <<>> THEN <<>>
    ELSE IF t[1] = " " THEN Strip(Tail(t))
    ELSE IF t[Len(t)] = " " THEN Strip(SubSeq(t, 1, Len(t) - 1))
    ELSE t

\* every segment kept, blank ones too
EnabledToolsUnfiltered(enabled_tools) ==
    IF enabled_tools = None \/ enabled_tools[1] = <<>>
    THEN <<>>
    ELSE LET parts == SplitComma(enabled_tools[1])
         IN  [i \in 1..Len(parts) |-> Strip(parts[i])]

\* JiraConfig.enabled_tools_list
EnabledToolsList(enabled_tools) ==
    IF enabled_tools = None \/ enabled_tools[1] = <<>>
    THEN <<>>
    ELSE LET parts == SplitComma(enabled_tools[1])
             stripped == [i \in 1..Len(parts) |-> Strip(parts[i])]
         IN  SelectSeq(stripped, LAMBDA t : t # <<>>)

\* JiraConfig.is_tool_enabled
IsToolEnabled(enabled_tools, tool_name) ==
    LET enabled == EnabledToolsList(enabled_tools)
    IN  IF enabled = <<>> THEN TRUE
        ELSE \E i \in 1..Len(enabled) : enabled[i] = <<tool_name>>

\* the strings a tool returns at its gates
PlainDisabled == <<"Tool is ", "disabled by configuration">>

NamedDisabled(name) == <<"Tool '", name, "' is ", "disabled by configuration", ".">>

ErrorCannot(what) == <<"Error: Cannot ", what, " - server is in ", "read-only mode">>

NotAllowed == <<"Operation not allowed: Server is in ", "read-only mode">>

CannotColon(what) == <<"Cannot ", what, ": Server is in ", "read-only mode", ".">>

\* A registered tool: its name, whether its client calls sit in a
\* try/except Exception, the strings of its gates (read_only_msg is None for
\* a tool without the read-only gate), the client methods it awaits in
\* order, and the steps after which it may return early with a string
\* (0: before the first client call).
ToolDef(name, guarded, disabled_msg, read_only_msg, methods, early) ==
    [name |-> name, guarded |-> guarded, disabled_msg |-> disabled_msg,
     read_only_msg |-> read_only_msg, methods |-> methods, early |-> early]

IssueTools ==
    { ToolDef("jira_get_issue", TRUE, PlainDisabled, None, <<"get_issue">>, {}),
      ToolDef("jira_create_issue", TRUE, PlainDisabled,
              Some(ErrorCannot("create issue")), <<"create_issue", "get_issue">>, {1}),
      ToolDef("jira_update_issue", TRUE, PlainDisabled,
              Some(ErrorCannot("update issue")), <<"update_issue", "get_issue">>, {}),
      ToolDef("jira_delete_issue", TRUE, PlainDisabled,
              Some(ErrorCannot("delete issue")), <<"delete_issue">>, {}),
      ToolDef("jira_search", TRUE, PlainDisabled, None, <<"search_issues">>, {}),
      ToolDef("jira_batch_create_issues", TRUE, PlainDisabled,
              Some(ErrorCannot("create issues")), <<"batch_create_issues">>, {0}),
      ToolDef("jira_batch_get_changelogs", TRUE, PlainDisabled, None,
              <<"get_issue_changelog">>, {}) }

CommentTools ==
    { ToolDef("jira_add_comment", TRUE, PlainDisabled,
              Some(ErrorCannot("add comment")), <<"add_comment">>, {}),
      ToolDef("jira_get_comments", TRUE, PlainDisabled, None, <<"get_comments">>, {}) }

TransitionTools ==
    { ToolDef("jira_get_transitions", TRUE, PlainDisabled, None,
              <<"get_transitions">>, {}),
      ToolDef("jira_transition_issue", TRUE, PlainDisabled,
              Some(ErrorCannot("transition issue")),
              <<"get_transitions", "transition_issue", "add_comment", "get_issue">>,
              {1}) }

ProjectTools ==
    { ToolDef("jira_get_all_projects", TRUE, PlainDisabled, None,
              <<"get_all_projects">>, {}),
      ToolDef("jira_get_project_issues", TRUE, PlainDisabled, None,
              <<"get_project_issues">>, {}) }

BoardTools ==
    { ToolDef("jira_get_agile_boards", TRUE, NamedDisabled("jira_get_agile_boards"),
              None, <<"get_agile_boards">>, {}),
      ToolDef("jira_get_board_issues", TRUE, NamedDisabled("jira_get_board_issues"),
              None, <<"get_board_issues">>, {}) }

SprintTools ==
    { ToolDef("jira_get_sprints_from_board", TRUE,
              NamedDisabled("jira_get_sprints_from_board"), None,
              <<"get_sprints_from_board">>, {}),
      ToolDef("jira_get_sprint_issues", TRUE, NamedDisabled("jira_get_sprint_issues"),
              None, <<"get_sprint_issues">>, {}),
      ToolDef("jira_create_sprint", TRUE, NamedDisabled("jira_create_sprint"),
              Some(CannotColon("create sprint")), <<"create_sprint">>, {}),
      ToolDef("jira_update_sprint", TRUE, NamedDisabled("jira_update_sprint"),
              Some(CannotColon("update sprint")), <<"update_sprint">>, {0}) }

EpicTools ==
    { ToolDef("jira_link_to_epic", TRUE, NamedDisabled("jira_link_to_epic"),
              Some(CannotColon("link issue to epic")), <<"link_to_epic">>, {}),
      ToolDef("jira_get_epic_issues", TRUE, NamedDisabled("jira_get_epic_issues"),
              None, <<"get_epic_issues">>, {}) }

LinkTools ==
    { ToolDef("jira_get_link_types", FALSE, PlainDisabled, None,
              <<"get_link_types">>, {}),
      ToolDef("jira_create_issue_link", FALSE, PlainDisabled, Some(NotAllowed),
              <<"create_issue_link">>, {}),
      ToolDef("jira_remove_issue_link", FALSE, PlainDisabled, Some(NotAllowed),
              <<"remove_issue_link">>, {}),
      ToolDef("jira_create_remote_issue_link", FALSE, PlainDisabled, Some(NotAllowed),
              <<"create_remote_issue_link">>, {}) }

WorklogTools ==
    { ToolDef("jira_add_worklog", FALSE, PlainDisabled, Some(NotAllowed),
              <<"add_worklog">>, {}),
      ToolDef("jira_get_worklog", FALSE, PlainDisabled, None, <<"get_worklog">>, {}) }

VersionTools ==
    { ToolDef("jira_get_project_versions", FALSE, PlainDisabled, None,
              <<"get_project_versions">>, {}),
      ToolDef("jira_create_version", FALSE, PlainDisabled, Some(NotAllowed),
              <<"create_version">>, {}),
      ToolDef("jira_batch_create_versions", FALSE, PlainDisabled, Some(NotAllowed),
              <<"batch_create_versions">>, {}) }

AttachmentTools ==
    { ToolDef("jira_download_attachments", FALSE, PlainDisabled, None,
              <<"get_issue">>, {}),
      ToolDef("jira_add_attachment", FALSE, PlainDisabled, Some(NotAllowed),
              <<"add_attachment">>, {}) }

UserTools ==
    { ToolDef("jira_get_user_profile", FALSE, PlainDisabled, None,
              <<"get_user_profile">>, {}),
      ToolDef("jira_search_users", FALSE, PlainDisabled, None, <<"search_users">>, {}) }

FieldTools ==
    { ToolDef("jira_search_fields", TRUE, PlainDisabled, None, <<"get_fields">>, {}) }

\* register_all_tools
RegisteredTools ==
    IssueTools \cup CommentTools \cup TransitionTools \cup ProjectTools
    \cup BoardTools \cup SprintTools \cup EpicTools \cup LinkTools
    \cup WorklogTools \cup VersionTools \cup AttachmentTools \cup UserTools
    \cup FieldTools

\* the coroutine methods JiraClient defines
ClientMethods ==
    { "close", "get_issue", "create_issue", "update_issue", "delete_issue",
      "search_issues", "batch_create_issues", "get_issue_changelog",
      "add_comment", "get_comments", "get_transitions", "transition_issue",
      "get_all_projects", "get_project_issues", "get_agile_boards",
      "get_board_issues", "get_sprints", "get_sprint_issues", "create_sprint",
      "update_sprint", "link_issue_to_epic", "get_epic_issues", "get_link_types",
      "create_issue_link", "remove_issue_link", "create_remote_link",
      "add_worklog", "get_worklogs", "get_project_versions", "create_version",
      "download_attachment", "add_attachment", "get_current_user", "get_user",
      "search_users", "get_fields" }

\* the parameters of a client method after self: their names in order, how
\* many of them have no default, and whether **kwargs is accepted
Signature(params, required, var_kw) ==
    [params |-> params, required |-> required, var_kw |-> var_kw]

\* the public coroutine methods of JiraClient
Signatures ==
    ("close" :> Signature(<<>>, 0, FALSE))
    @@ ("get_issue" :> Signature(<<"key", "fields", "expand">>, 1, FALSE))
    @@ ("create_issue" :> Signature(<<"project", "issue_type", "summary">>, 3, TRUE))
    @@ ("update_issue" :> Signature(<<"key", "fields">>, 2, FALSE))
    @@ ("delete_issue" :> Signature(<<"key">>, 1, FALSE))
    @@ ("search_issues" :>
          Signature(<<"jql", "fields", "max_results", "start_at">>, 1, FALSE))
    @@ ("batch_create_issues" :> Signature(<<"issues">>, 1, FALSE))
    @@ ("get_issue_changelog" :> Signature(<<"key">>, 1, FALSE))
    @@ ("add_comment" :> Signature(<<"key", "body">>, 2, FALSE))
    @@ ("get_comments" :> Signature(<<"key">>, 1, FALSE))
    @@ ("get_transitions" :> Signature(<<"key">>, 1, FALSE))
    @@ ("transition_issue" :> Signature(<<"key", "transition_id", "fields">>, 2, FALSE))
    @@ ("get_all_projects" :> Signature(<<>>, 0, FALSE))
    @@ ("get_project_issues" :> Signature(<<"project_key", "jql_filter">>, 1, FALSE))
    @@ ("get_agile_boards" :> Signature(<<"project_key", "board_type">>, 0, FALSE))
    @@ ("get_board_issues" :> Signature(<<"board_id">>, 1, FALSE))
    @@ ("get_sprints" :> Signature(<<"board_id", "state">>, 1, FALSE))
    @@ ("get_sprint_issues" :> Signature(<<"sprint_id">>, 1, FALSE))
    @@ ("create_sprint" :>
          Signature(<<"board_id", "name", "start_date", "end_date">>, 2, FALSE))
    @@ ("update_sprint" :> Signature(<<"sprint_id">>, 1, TRUE))
    @@ ("link_issue_to_epic" :> Signature(<<"issue_key", "epic_key">>, 2, FALSE))
    @@ ("get_epic_issues" :> Signature(<<"epic_key">>, 1, FALSE))
    @@ ("get_link_types" :> Signature(<<>>, 0, FALSE))
    @@ ("create_issue_link" :>
          Signature(<<"link_type", "inward_key", "outward_key">>, 3, FALSE))
    @@ ("remove_issue_link" :> Signature(<<"link_id">>, 1, FALSE))
    @@ ("create_remote_link" :> Signature(<<"key", "url", "title">>, 3, FALSE))
    @@ ("add_worklog" :>
          Signature(<<"key", "time_spent", "started", "comment">>, 2, FALSE))
    @@ ("get_worklogs" :> Signature(<<"key">>, 1, FALSE))
    @@ ("get_project_versions" :> Signature(<<"project_key">>, 1, FALSE))
    @@ ("create_version" :> Signature(<<"project_key", "name">>, 2, TRUE))
    @@ ("download_attachment" :> Signature(<<"attachment_id">>, 1, FALSE))
    @@ ("add_attachment" :> Signature(<<"key", "file_path", "filename">>, 2, FALSE))
    @@ ("get_current_user" :> Signature(<<>>, 0, FALSE))
    @@ ("get_user" :> Signature(<<"account_id">>, 1, FALSE))
    @@ ("search_users" :> Signature(<<"query">>, 1, FALSE))
    @@ ("get_fields" :> Signature(<<>>, 0, FALSE))

\* a call client.method(...) in a tool: the number of positional arguments
\* and the names of the keyword arguments
CallShape(tool_name, method, pos, kw) ==
    [tool |-> tool_name, method |-> method, pos |-> pos, kw |-> kw]

\* the client calls of the tools, file by file
AttachmentCalls ==
    { CallShape("jira_download_attachments", "get_issue", 1, {"fields"}),
      CallShape("jira_add_attachment", "add_attachment", 0,
                {"key", "file_path", "filename"}) }

BoardCalls ==
    { CallShape("jira_get_agile_boards", "get_agile_boards", 0,
                {"project_key", "board_type"}),
      CallShape("jira_get_board_issues", "get_board_issues", 0,
                {"board_id", "jql", "max_results"}) }

CommentCalls ==
    { CallShape("jira_add_comment", "add_comment", 2, {}),
      CallShape("jira_get_comments", "get_comments", 1, {}) }

EpicCalls ==
    { CallShape("jira_link_to_epic", "link_to_epic", 0, {"issue_key", "epic_key"}),
      CallShape("jira_get_epic_issues", "get_epic_issues", 0,
                {"epic_key", "max_results"}) }

FieldCalls ==
    { CallShape("jira_search_fields", "get_fields", 0, {}) }

IssueCalls ==
    { CallShape("jira_get_issue", "get_issue", 3, {}),
      CallShape("jira_create_issue", "create_issue", 1, {}),
      CallShape("jira_create_issue", "get_issue", 1, {}),
      CallShape("jira_update_issue", "update_issue", 2, {}),
      CallShape("jira_update_issue", "get_issue", 1, {}),
      CallShape("jira_delete_issue", "delete_issue", 1, {}),
      CallShape("jira_search", "search_issues", 4, {}),
      CallShape("jira_batch_create_issues", "batch_create_issues", 1, {}),
      CallShape("jira_batch_get_changelogs", "get_issue_changelog", 1, {}) }

LinkCalls ==
    { CallShape("jira_get_link_types", "get_link_types", 0, {}),
      CallShape("jira_create_issue_link", "create_issue_link", 0,
                {"link_type", "inward_issue", "outward_issue", "comment"}),
      CallShape("jira_remove_issue_link", "remove_issue_link", 1, {}),
      CallShape("jira_create_remote_issue_link", "create_remote_issue_link", 0,
                {"issue_key", "url", "title", "summary"}) }

ProjectCalls ==
    { CallShape("jira_get_all_projects", "get_all_projects", 0, {}),
      CallShape("jira_get_project_issues", "get_project_issues", 2, {}) }

SprintCalls ==
    { CallShape("jira_get_sprints_from_board", "get_sprints_from_board", 0,
                {"board_id", "state"}),
      CallShape("jira_get_sprint_issues", "get_sprint_issues", 0,
                {"sprint_id", "jql", "max_results"}),
      CallShape("jira_create_sprint", "create_sprint", 0,
                {"name", "board_id", "start_date", "end_date", "goal"}),
      CallShape("jira_update_sprint", "update_sprint", 0,
                {"sprint_id", "name", "state", "start_date", "end_date", "goal"}) }

TransitionCalls ==
    { CallShape("jira_get_transitions", "get_transitions", 1, {}),
      CallShape("jira_transition_issue", "get_transitions", 1, {}),
      CallShape("jira_transition_issue", "transition_issue", 3, {}),
      CallShape("jira_transition_issue", "add_comment", 2, {}),
      CallShape("jira_transition_issue", "get_issue", 1, {}) }

UserCalls ==
    { CallShape("jira_get_user_profile", "get_user_profile", 0, {"account_id"}),
      CallShape("jira_search_users", "search_users", 0, {"query", "max_results"}) }

VersionCalls ==
    { CallShape("jira_get_project_versions", "get_project_versions", 1, {}),
      CallShape("jira_create_version", "create_version", 0,
                {"project_key", "name", "description", "release_date", "start_date",
                 "released", "archived"}),
      CallShape("jira_batch_create_versions", "batch_create_versions", 0,
                {"project_key", "versions"}) }

WorklogCalls ==
    { CallShape("jira_add_worklog", "add_worklog", 0,
                {"issue_key", "time_spent", "comment", "started"}),
      CallShape("jira_get_worklog", "get_worklog", 1, {}) }

ToolCalls ==
    IssueCalls \cup CommentCalls \cup TransitionCalls \cup ProjectCalls
    \cup BoardCalls \cup SprintCalls \cup EpicCalls \cup LinkCalls
    \cup WorklogCalls \cup VersionCalls \cup AttachmentCalls \cup UserCalls
    \cup FieldCalls

\* Python's binding of a call's arguments to a signature: no more
\* positional arguments than parameters, every keyword names a parameter
\* not already given (or is taken by **kwargs), every parameter without a
\* default is given.
Binds(sig, call) ==
    LET given == { sig.params[i] : i \in 1..call.pos }
        later == { sig.params[i] : i \in (call.pos + 1)..Len(sig.params) }
    IN  /\ call.pos <= Len(sig.params)
        /\ \A k \in call.kw : k \notin given /\ (k \in later \/ sig.var_kw)
        /\ \A i \in 1..sig.required : i <= call.pos \/ sig.params[i] \in call.kw

\* What evaluating client.method(...) in a tool raises before any request:
\* AttributeError for a method JiraClient does not have, TypeError for
\* arguments that do not fit its signature, otherwise nothing.
CallRaises(tool_name, method) ==
    IF method \notin ClientMethods THEN Some("AttributeError")
    ELSE LET call == CHOOSE c \in ToolCalls : c.tool = tool_name /\ c.method = method
         IN  IF Binds(Signatures[method], call) THEN None ELSE Some("TypeError")

\* str.lower() on the letters the transition names are written with
LowerChar(c) ==
    CASE c = "D" -> "d"
      [] c = "O" -> "o"
      [] c = "N" -> "n"
      [] c = "E" -> "e"
      [] c = "S" -> "s"
      [] OTHER -> c

Lower(name) == [i \in 1..Len(name) |-> LowerChar(name[i])]

\* one entry of the "transitions" list of the GET
Transition(name, id) == [name |-> name, id |-> id]

\* the first transition of the list, whatever its name
FindFirstTransition(transitions, transition_name) ==
    IF transitions = <<>> THEN None ELSE Some(Head(transitions).id)

RECURSIVE FindTransition(_, _)
\* the loop of jira_transition_issue over the fetched transitions: the id
\* of the first one whose lowered name is the lowered requested name
FindTransition(transitions, transition_name) ==
    IF transitions = <<>> THEN None
    ELSE IF Lower(Head(transitions).name) = Lower(transition_name)
    THEN Some(Head(transitions).id)
    ELSE FindTransition(Tail(transitions), transition_name)

\* if not transition_id: nothing found, or an id that is empty
Found(transition_id) == transition_id # None /\ transition_id[1] # ""

\* keys_list = [key.strip() for key in issue_keys.split(",")]
KeysList(issue_keys) ==
    LET parts == SplitComma(issue_keys)
    IN  [i \in 1..Len(parts) |-> Strip(parts[i])]

\* the batch given up at the first key that fails
AbortOnFailedKey(rest) == <<>>

\* the inner except of jira_batch_get_changelogs: the failure is logged and
\* the loop goes on with the keys that are left
SkipFailedKey(rest) == rest

RECURSIVE Sections(_)
\* one "## {key}" section per collected changelog
Sections(changelogs) ==
    IF changelogs = <<>> THEN <<>>
    ELSE <<"## ">> \o Head(changelogs) \o Sections(Tail(changelogs))

\* the markdown jira_batch_get_changelogs returns
FormatChangelogs(changelogs) == <<"# Issue Changelogs">> \o Sections(changelogs)

\* the methods an invocation awaits: jira_transition_issue adds its comment
\* only when one is given, jira_batch_get_changelogs fetches once per key
MethodsOf(t, comment, input) ==
    IF t.name = "jira_transition_issue" /\ ~comment
    THEN <<"get_transitions", "transition_issue", "get_issue">>
    ELSE IF t.name = "jira_batch_get_changelogs"
    THEN [i \in 1..Len(KeysList(input)) |-> "get_issue_changelog"]
    ELSE t.methods

\* what a tool hands back to the MCP framework
ToolString(text) == [kind |-> "string", text |-> text]

ToolRaised(type) == [kind |-> "raise", type |-> type]

NoOutcome == [kind |-> "none"]

\* every tool lets a write through, whatever config.read_only says
RejectionWithoutReadOnly(t, read_only, enabled_tools) ==
    IF ~IsToolEnabled(enabled_tools, t.name) THEN Some(t.disabled_msg)
    ELSE None

\* the gates in the other order: config.read_only first
RejectionReadOnlyFirst(t, read_only, enabled_tools) ==
    IF t.read_only_msg # None /\ read_only THEN Some(t.read_only_msg[1])
    ELSE IF ~IsToolEnabled(enabled_tools, t.name) THEN Some(t.disabled_msg)
    ELSE None

\* The gates at the head of a tool: config.is_tool_enabled(name), then
\* config.read_only in the tools that write.
Rejection(t, read_only, enabled_tools) ==
    IF ~IsToolEnabled(enabled_tools, t.name) THEN Some(t.disabled_msg)
    ELSE IF t.read_only_msg # None /\ read_only THEN Some(t.read_only_msg[1])
    ELSE None

\* the connection pool of a JiraClient
NoClient == [state |-> "none", closes |-> 0, used |-> FALSE, used_closed |-> FALSE]

OpenClient == [state |-> "open", closes |-> 0, used |-> FALSE, used_closed |-> FALSE]

\* await client.close()
CloseClient(c) == [c EXCEPT !.state = "closed", !.closes = @ + 1]

\* a request issued through the client
UseClient(c) ==
    [c EXCEPT !.used = TRUE, !.used_closed = @ \/ c.state = "closed"]

\* create_server(config, read_only_override): the server with its tools
\* registered on temp_client and config
CreateServer(read_only, enabled_tools, read_only_override) ==
    [phase |-> "created",
     read_only |-> read_only,
     enabled_tools |-> enabled_tools,
     read_only_override |-> read_only_override,
     context_read_only |-> None,
     temp_client |-> OpenClient,
     client |-> NoClient]

\* the outcomes of one client method awaited by a tool: a result, a result
\* that ends the tool early, or an exception
ClientOutcomes ==
    {"ok", "nothing", "JiraAPIError", "JiraNotFoundError", "JSONDecodeError"}

\* the enabled_tools settings of the server specification
EnabledToolsInputs ==
    { None,
      Some(<<>>),
      Some(<<",", " ", ",">>),
      Some(<<"jira_get_issue">>),
      Some(<<" ", "jira_delete_issue", " ", ",", "jira_search", ",">>),
      Some(<<"jira_add_attachment", ",", "jira_get_link_types", ",",
             "jira_transition_issue">>) }

\* lifespan up to its yield: the client of the context is built and
\* context["read_only"] computed
LifespanEnter ==
    /\ server.phase = "created"
    /\ server' = [server EXCEPT
                    !.phase = "running",
                    !.client = OpenClient,
                    !.context_read_only =
                        Some(IF server.read_only_override # None
                             THEN server.read_only_override[1]
                             ELSE server.read_only)]
    /\ UNCHANGED <<max_retries, pc, endpoint, retry_count, response, result,
                   attempts, sleeps, seen, config, headers, op, opargs, args,
                   sent, calls, tool>>

\* lifespan after its yield: the finally clause closes the client it built
LifespanExit ==
    /\ server.phase = "running"
    /\ tool.pc # "calling"
    /\ server' = [server EXCEPT !.phase = "stopped",
                                !.client = CloseClient(server.client)]
    /\ UNCHANGED <<max_retries, pc, endpoint, retry_count, response, result,
                   attempts, sleeps, seen, config, headers, op, opargs, args,
                   sent, calls, tool>>

\* the transition names a caller asks for
TransitionNames ==
    { <<"d", "o", "n", "e">>, <<"D", "O", "N", "E">>, <<"S", "t", "o", "p">> }

\* the transitions lists the GET may answer with
FetchedTransitions ==
    { <<>>,
      <<Transition(<<"S", "t", "a", "r", "t">>, "11"),
        Transition(<<"D", "o", "n", "e">>, "31")>>,
      <<Transition(<<"D", "o", "n", "e">>, ""),
        Transition(<<"d", "o", "n", "e">>, "41")>> }

\* the issue_keys arguments of jira_batch_get_changelogs
KeyInputs ==
    { <<"A">>,
      <<"A", ",", " ", "B">>,
      <<"B", ",", "A", " ", ",", "C">> }

\* the argument of an invocation that the model follows
ToolInputs(t) ==
    IF t.name = "jira_transition_issue" THEN TransitionNames
    ELSE IF t.name = "jira_batch_get_changelogs" THEN KeyInputs
    ELSE {<<>>}

\* The MCP framework invokes a tool: the gates, then the first client call
\* is awaited unless the arguments make the tool return at once.
Invoke(t, comment, valid, input) ==
    /\ server.phase = "running"
    /\ tool.pc \in {"none", "done"}
    /\ LET rejection == Rejection(t, server.read_only, server.enabled_tools)
           idle == [name |-> t.name, guarded |-> t.guarded, early |-> t.early,
                    input |-> input, step |-> 0, remaining |-> <<>>,
                    requests |-> 0, called |-> <<>>, oks |-> <<>>,
                    succeeded |-> <<>>,
                    fetched |-> <<>>, changelogs |-> <<>>]
       IN  tool' =
             IF rejection # None
             THEN idle @@ [pc |-> "done", outcome |-> ToolString(rejection[1])]
             ELSE IF ~valid /\ 0 \in t.early
             THEN idle @@ [pc |-> "done",
                           outcome |-> ToolString(<<"Error: ", "invalid arguments">>)]
             ELSE [idle EXCEPT !.remaining = MethodsOf(t, comment, input)]
                  @@ [pc |-> "calling", outcome |-> NoOutcome]
    /\ UNCHANGED <<max_retries, pc, endpoint, retry_count, response, result,
                   attempts, sleeps, seen, config, headers, op, opargs, args,
                   sent, calls, server>>

\* The client method the tool awaits completes. A call that raises on
\* evaluation (no such method, arguments that do not bind) issues no
\* request; the others go through the client the tools were registered with.
\* jira_transition_issue looks its transition up in what the first call
\* fetched; jira_batch_get_changelogs catches the failure of a key itself.
ClientCompletes(outcome, fetched) ==
    /\ tool.pc = "calling"
    /\ LET method == Head(tool.remaining)
           failed == CallRaises(tool.name, method)
           defined == failed = None
           step == tool.step + 1
           raised == IF defined THEN outcome ELSE failed[1]
           ok == defined /\ outcome = "ok"
           lookup == tool.name = "jira_transition_issue" /\ step = 1 /\ ok
           batch == tool.name = "jira_batch_get_changelogs"
           after == [tool EXCEPT !.step = step,
                                 !.requests = IF defined THEN @ + 1 ELSE @,
                                 !.remaining = Tail(@),
                                 !.called = Append(@, method),
                                 !.oks = Append(@, ok),
                                 !.succeeded = IF ok THEN Append(@, method) ELSE @,
                                 !.fetched = IF lookup THEN fetched ELSE @]
           logs == IF ok THEN Append(tool.changelogs, KeysList(tool.input)[step])
                   ELSE tool.changelogs
           rest == IF ok THEN Tail(tool.remaining)
                   ELSE SkipFailedKey(Tail(tool.remaining))
       IN  /\ outcome = "nothing" =>
                (defined /\ step \in tool.early /\ tool.name # "jira_transition_issue")
           /\ ~defined => outcome = "ok"
           /\ ~lookup => fetched = <<>>
           /\ tool' =
                IF batch
                THEN IF rest = <<>>
                     THEN [after EXCEPT !.pc = "done", !.remaining = <<>>,
                                        !.changelogs = logs,
                                        !.outcome = ToolString(FormatChangelogs(logs))]
                     ELSE [after EXCEPT !.remaining = rest, !.changelogs = logs]
                ELSE IF lookup /\ ~Found(FindTransition(fetched, tool.input))
                THEN [after EXCEPT !.pc = "done", !.remaining = <<>>,
                                   !.outcome = ToolString(<<"Error: ", "Transition '",
                                                            "' not found">>)]
                ELSE IF defined /\ outcome = "ok"
                THEN IF Len(tool.remaining) = 1
                     THEN [after EXCEPT !.pc = "done",
                                        !.outcome = ToolString(<<"result">>)]
                     ELSE after
                ELSE IF defined /\ outcome = "nothing"
                THEN [after EXCEPT !.pc = "done", !.remaining = <<>>,
                                   !.outcome = ToolString(<<"Error: ", "nothing to do">>)]
                ELSE IF tool.guarded
                THEN [after EXCEPT !.pc = "done", !.remaining = <<>>,
                                   !.outcome = ToolString(<<"Error: ", raised>>)]
                ELSE [after EXCEPT !.pc = "done", !.remaining = <<>>,
                                   !.outcome = ToolRaised(raised)]
           /\ server' = IF defined
                        THEN [server EXCEPT !.temp_client = UseClient(@)]
                        ELSE server
    /\ UNCHANGED <<max_retries, pc, endpoint, retry_count, response, result,
                   attempts, sleeps, seen, config, headers, op, opargs, args,
                   sent, calls>>

\* the values of create_server's read_only_override
Overrides == {None, Some(TRUE), Some(FALSE)}

ServerInit ==
    \E read_only \in BOOLEAN, enabled_tools \in EnabledToolsInputs,
       read_only_override \in Overrides :
        /\ ClientIdle(DefaultConfig, MinRetries)
        /\ calls = NoCalls
        /\ tool = NoTool
        /\ server = CreateServer(read_only, enabled_tools, read_only_override)

ServerNext ==
    \/ LifespanEnter
    \/ \E t \in RegisteredTools, comment \in BOOLEAN, valid \in BOOLEAN :
          \E input \in ToolInputs(t) : Invoke(t, comment, valid, input)
    \/ \E outcome \in ClientOutcomes, fetched \in FetchedTransitions :
          ClientCompletes(outcome, fetched)
    \/ LifespanExit

ServerSpec == ServerInit /\ [][ServerNext]_vars

-----------------------------------------------------------------------------
(* Several _request calls in flight on one client. Each call is a chain of *)
(* coroutine frames with its own arguments and locals; the client's        *)
(* max_retries, config and headers are only read.                          *)

NumCalls == 2

CallIds == 1..NumCalls

\* the locals of a call that has not been made
IdleFrame ==
    [pc |-> "idle", endpoint |-> <<>>, retry_count |-> 0, attempts |-> 0,
     sleeps |-> <<>>, responses |-> <<>>, result |-> Pending,
     peer_suspended |-> FALSE]

\* the frame is awaiting the network or its backoff sleep
Suspended(f) == f.pc \in {"wait", "backoff"}

\* one retry counter kept for all the calls of the client
UpdateSharedCounter(fs, c, f) ==
    [d \in DOMAIN fs |->
        IF d = c THEN f ELSE [fs[d] EXCEPT !.retry_count = f.retry_count]]

\* A step of call c rebinds the locals of c alone.
Update(fs, c, f) == [fs EXCEPT ![c] = f]

\* a call proceeds only while no other call is suspended
RunnableAlone(fs, c) == \A d \in DOMAIN fs : d = c \/ ~Suspended(fs[d])

\* _request takes no lock, and an awaiting frame yields to the event loop:
\* a call can take its next step whatever the other calls are doing.
Runnable(fs, c) == c \in DOMAIN fs

\* the endpoints and outcomes of the concurrent calls
ConcurrentEndpoints == {IssueEndpoint}

ConcurrentResponses ==
    { <<200, "{\"key\": \"PROJ-1\"}">>, <<404, "">>, <<429, "">> }

ConcurrentExceptions == {"TimeoutException"}

CEnter(c, ep) ==
    /\ Runnable(calls, c)
    /\ calls[c].pc \in {"idle", "done"}
    /\ calls' = Update(calls, c,
                       [IdleFrame EXCEPT
                          !.pc = "send",
                          !.endpoint = ep,
                          !.peer_suspended =
                              \E d \in CallIds : d # c /\ Suspended(calls[d])])
    /\ UNCHANGED <<max_retries, pc, endpoint, retry_count, response, result,
                   attempts, sleeps, seen, config, headers, op, opargs, args,
                   sent, server, tool>>

CSend(c) ==
    /\ Runnable(calls, c)
    /\ calls[c].pc = "send"
    /\ calls' = Update(calls, c, [calls[c] EXCEPT !.pc = "wait",
                                                  !.attempts = @ + 1])
    /\ UNCHANGED <<max_retries, pc, endpoint, retry_count, response, result,
                   attempts, sleeps, seen, config, headers, op, opargs, args,
                   sent, server, tool>>

\* the frame of call c acts on the outcome of its attempt
CSettle(c, resp, out) ==
    /\ calls' = Update(calls, c,
                       IF out.kind = "retry"
                       THEN [calls[c] EXCEPT !.pc = "backoff",
                                             !.responses = Append(@, resp)]
                       ELSE [calls[c] EXCEPT !.pc = "done",
                                             !.responses = Append(@, resp),
                                             !.result = out])
    /\ UNCHANGED <<max_retries, pc, endpoint, retry_count, response, result,
                   attempts, sleeps, seen, config, headers, op, opargs, args,
                   sent, server, tool>>

CReceive(c, status, content) ==
    /\ Runnable(calls, c)
    /\ calls[c].pc = "wait"
    /\ CSettle(c, HttpResponse(status, content),
               HandleResponse(status, content, ResolveUrl(calls[c].endpoint),
                              calls[c].retry_count, max_retries))

CTransportError(c, exc) ==
    /\ Runnable(calls, c)
    /\ calls[c].pc = "wait"
    /\ CSettle(c, HttpException(exc),
               HandleException(exc, calls[c].retry_count, max_retries))

CBackoff(c) ==
    /\ Runnable(calls, c)
    /\ calls[c].pc = "backoff"
    /\ calls' = Update(calls, c,
                       [calls[c] EXCEPT
                          !.pc = "send",
                          !.sleeps = Append(@, BackoffDelay(calls[c].retry_count)),
                          !.retry_count =
                              RetryCall(calls[c].endpoint, PlainGet, @).retry_count])
    /\ UNCHANGED <<max_retries, pc, endpoint, retry_count, response, result,
                   attempts, sleeps, seen, config, headers, op, opargs, args,
                   sent, server, tool>>

ConcurrentInit ==
    \E maxr \in MinRetries..MaxClientRetries :
        /\ ClientIdle(DefaultConfig, maxr)
        /\ calls = [c \in CallIds |-> IdleFrame]
        /\ server = NoServer
        /\ tool = NoTool

ConcurrentNext ==
    \/ \E c \in CallIds, ep \in ConcurrentEndpoints : CEnter(c, ep)
    \/ \E c \in CallIds : CSend(c)
    \/ \E c \in CallIds, r \in ConcurrentResponses : CReceive(c, r[1], r[2])
    \/ \E c \in CallIds, exc \in ConcurrentExceptions : CTransportError(c, exc)
    \/ \E c \in CallIds : CBackoff(c)

ConcurrentSpec == ConcurrentInit /\ [][ConcurrentNext]_vars

-----------------------------------------------------------------------------
(* Properties of the request pipeline.                                     *)

IsResponse == response.kind = "response"

IsTransportFailure ==
    response.kind = "exception" /\ response.exc \in {"TimeoutException", "NetworkError"}

\* every outcome of this call so far was a 429 or a status >= 500
OnlyStatusFailures ==
    /\ seen \subseteq {"429", "5xx"}
    /\ response.kind # "none" => (IsResponse /\ FailureKind(response) # {})

\* C1: when every response of a call is a 429 or a status >= 500, the call
\* makes exactly max_retries retries (max_retries + 1 attempts) and then
\* raises; it raises no earlier and attempts nothing afterwards.
C1_ExactlyMaxRetries ==
    OnlyStatusFailures =>
        /\ attempts <= max_retries + 1
        /\ retry_count <= max_retries
        /\ pc = "done" => result.kind = "raise"
        /\ result.kind = "raise" =>
              /\ pc = "done"
              /\ result.type \in {"JiraRateLimitError", "JiraAPIError"}
              /\ attempts = max_retries + 1
              /\ retry_count = max_retries
              /\ Len(sleeps) = max_retries

C1_Witness ==
    /\ OnlyStatusFailures
    /\ pc = "done"
    /\ result.kind = "raise"
    /\ max_retries = 3
    /\ attempts = 4
    /\ seen = {"429", "5xx"}

C2_Inv ==
    /\ retry_count >= 0
    /\ retry_count <= max_retries
    /\ pc = "idle" => retry_count = 0
    /\ pc = "send" => attempts = retry_count
    /\ pc \in {"wait", "backoff", "done"} => attempts = retry_count + 1
    /\ pc = "backoff" => FailureKind(response) # {} /\ retry_count < max_retries
    /\ (pc = "done" /\ FailureKind(response) # {}) =>
          result.kind = "raise" /\ retry_count = max_retries

C2_Step ==
    /\ pc \in {"idle", "done"} /\ pc' = "send" => retry_count' = 0
    /\ ~(pc \in {"idle", "done"}) /\ retry_count' # retry_count =>
          /\ retry_count' = retry_count + 1
          /\ FailureKind(response) # {}
    /\ (pc = "wait" /\ FailureKind(response') # {} /\ retry_count < max_retries) =>
          pc' = "backoff"
    /\ pc = "backoff" => retry_count' = retry_count + 1

\* C2: the retry counter starts at 0, grows by exactly 1 on each retryable
\* failure (429, >= 500, timeout, network error), never exceeds max_retries,
\* and a retryable failure at retry_count = max_retries ends the call with
\* an error.
C2_RetryCounter == []C2_Inv /\ [][C2_Step]_vars

C2_Witness ==
    /\ pc = "done"
    /\ retry_count = max_retries
    /\ max_retries = 4
    /\ seen = {"429", "5xx", "timeout", "network"}
    /\ result.kind = "raise"

\* what a 200/201 response carries: the parsed body, {} for an empty one
Payload(content) == IF content = "" THEN EmptyDict ELSE JsonLoads(content)[1]

HasPayload(content) == content = "" \/ JsonLoads(content) # None

ExpectedDelays == <<1, 2, 4, 8, 16, 30, 30, 30, 30, 30>>

\* C4: the delay slept before retry k (0-indexed) is min(2^k, 30); no delay
\* exceeds 30, and one delay per retry is all the pacing there is.
C4_BackoffDelays ==
    /\ Len(sleeps) = retry_count
    /\ Len(sleeps) <= max_retries
    /\ \A i \in 1..Len(sleeps) :
          /\ sleeps[i] = ExpectedDelays[i]
          /\ sleeps[i] <= 30

C4_Witness ==
    /\ Len(sleeps) = 7
    /\ sleeps[5] = 16
    /\ sleeps[6] = 30
    /\ sleeps[7] = 30

TypedError(status) ==
    CASE status = 400 -> "JiraValidationError"
      [] status = 401 -> "JiraAuthenticationError"
      [] status = 403 -> "JiraPermissionError"
      [] status = 404 -> "JiraNotFoundError"

\* C5: a 400, 401, 403 or 404 ends the call on the attempt it arrives on,
\* with the typed error of that status carrying the status code, whatever
\* retry_count and max_retries are; no backoff and no attempt follow it.
C5_ClientErrorsTerminal ==
    (IsResponse /\ response.status_code \in {400, 401, 403, 404}) =>
        /\ pc = "done"
        /\ result.kind = "raise"
        /\ result.type = TypedError(response.status_code)
        /\ result.status_code = Some(response.status_code)
        /\ Len(sleeps) = retry_count
        /\ attempts = retry_count + 1

C5_Witness ==
    /\ pc = "done"
    /\ IsResponse /\ response.status_code = 404
    /\ retry_count = 2
    /\ max_retries = 5
    /\ result.kind = "raise" /\ result.type = "JiraNotFoundError"

\* C6: with the budget exhausted (retry_count = max_retries) a 429 raises
\* JiraRateLimitError with status code 429, and a status s >= 500 raises the
\* base JiraAPIError with status code s.
C6_ExhaustedStatusErrors ==
    (IsResponse /\ pc = "done" /\ retry_count = max_retries) =>
        /\ response.status_code = 429 =>
              /\ result.kind = "raise"
              /\ result.type = "JiraRateLimitError"
              /\ result.status_code = Some(429)
        /\ response.status_code >= 500 =>
              /\ result.kind = "raise"
              /\ result.type = "JiraAPIError"
              /\ result.status_code = Some(response.status_code)

C6_Witness ==
    /\ pc = "done"
    /\ max_retries = 2
    /\ retry_count = 2
    /\ IsResponse /\ response.status_code = 503
    /\ result.kind = "raise" /\ result.status_code = Some(503)

\* C7: a timeout or network failure is retried while retry_count <
\* max_retries, as a 429 is; with the budget exhausted the call raises the
\* base JiraAPIError whose message cites the number of attempts, which is
\* the number of HTTP attempts the call made, max_retries + 1.
C7_TransportFailures ==
    IsTransportFailure =>
        /\ pc = "backoff" => retry_count < max_retries
        /\ pc = "done" =>
              /\ retry_count = max_retries
              /\ attempts = max_retries + 1
              /\ result.kind = "raise"
              /\ result.type = "JiraAPIError"
              /\ result.message =
                    << (IF response.exc = "TimeoutException"
                        THEN "Request timeout after " ELSE "Network error after "),
                       ToString(attempts), " attempts" >>

C7_Witness ==
    /\ pc = "done"
    /\ IsTransportFailure /\ response.exc = "TimeoutException"
    /\ max_retries = 3
    /\ attempts = 4
    /\ result.message = <<"Request timeout after ", "4", " attempts">>

HandledStatuses == {200, 201, 204, 400, 401, 403, 404, 429}

\* C8: a status below 500 that the chain does not name (202, 206, 302, 409,
\* 418, ...) ends the call on the attempt it arrives on with the base
\* JiraAPIError carrying that status; it is neither retried nor backed off.
C8_UnexpectedStatusTerminal ==
    (IsResponse /\ response.status_code \notin HandledStatuses
        /\ response.status_code < 500) =>
        /\ pc = "done"
        /\ result.kind = "raise"
        /\ result.type = "JiraAPIError"
        /\ result.status_code = Some(response.status_code)
        /\ result.message =
              <<"Unexpected status code: ", ToString(response.status_code)>>
        /\ Len(sleeps) = retry_count
        /\ attempts = retry_count + 1

C8_Witness ==
    /\ pc = "done"
    /\ IsResponse /\ response.status_code = 409
    /\ retry_count = 1
    /\ result.kind = "raise" /\ result.status_code = Some(409)

\* C9: a 200 or 201 returns the parsed body when the body is non-empty and
\* {} when it is empty; it never raises and is never retried.
C9_SuccessNeverRaises ==
    (IsResponse /\ response.status_code \in {200, 201}) =>
        /\ pc = "done"
        /\ result.kind = "return"
        /\ response.content = "" => result.value = EmptyDict
        /\ response.content # "" => Some(result.value) = JsonLoads(response.content)

\* C10: a 204 returns {} whatever the body holds (nothing, JSON, or text
\* that is not JSON), and the call ends there.
C10_NoContentEmptyMapping ==
    (IsResponse /\ response.status_code = 204) =>
        /\ pc = "done"
        /\ result = Return(EmptyDict)

C10_Witness ==
    /\ pc = "done"
    /\ IsResponse /\ response.status_code = 204
    /\ response.content = "<html>Bad Gateway</html>"
    /\ result = Return(EmptyDict)

-----------------------------------------------------------------------------
(* Properties of the client as a whole (checked under ClientSpec).         *)

RECURSIVE Text(_)
\* the string a sequence of fragments or characters spells
Text(frags) == IF frags = <<>> THEN "" ELSE frags[1] \o Text(Tail(frags))

\* the operation in progress goes through _request
IsPipelineCall == op \in {"_request", "search_issues"}

HasAbsoluteScheme(ep) ==
    \/ StartsWith(ep, <<"h", "t", "t", "p", ":", "/", "/">>)
    \/ StartsWith(ep, <<"h", "t", "t", "p", "s", ":", "/", "/">>)

\* C11: for every endpoint that starts neither with an absolute scheme nor
\* with /rest/, the URL of the HTTP call is /rest/api/2 followed by the
\* endpoint, on the first attempt and on every retry.
C11_DefaultRootPrepended ==
    (IsPipelineCall /\ attempts > 0
        /\ ~HasAbsoluteScheme(endpoint) /\ ~StartsWith(endpoint, RestPrefix)) =>
        sent.url = ApiBase \o endpoint

\* C12: an endpoint with an http/https scheme or a /rest/ prefix is the URL
\* as it stands; every endpoint falls under exactly one of the three rules,
\* and only an endpoint with an http/https scheme is taken as absolute.
C12_ResolutionCases ==
    (IsPipelineCall /\ attempts > 0) =>
        /\ (HasAbsoluteScheme(endpoint) \/ StartsWith(endpoint, RestPrefix)) =>
              sent.url = endpoint
        /\ sent.url \in {endpoint, ApiBase \o endpoint}
        /\ ~(HasAbsoluteScheme(endpoint) /\ StartsWith(endpoint, RestPrefix))
        /\ (sent.url = endpoint /\ ~StartsWith(endpoint, RestPrefix)) =>
              HasAbsoluteScheme(endpoint)

Is400 == IsPipelineCall /\ pc = "done" /\ IsResponse /\ response.status_code = 400

\* the message of each body that carries errorMessages, errors or message,
\* or none of them, written out
ListedMessage(content) ==
    CASE content = "{\"errorMessages\": [\"Issue does not exist\"], \"errors\": {}}" ->
            "Issue does not exist"
      [] content = "{\"errorMessages\": [], \"errors\": {\"summary\": \"required\", \"project\": \"invalid\"}}" ->
            "summary: required, project: invalid"
      [] content = "{\"message\": \"bad request\"}" -> "bad request"
      [] content = "{\"errorMessages\": [\"a\", \"b\"], \"errors\": {\"x\": \"y\"}, \"message\": \"m\"}" ->
            "a, b"
      [] content = "{\"key\": \"PROJ-1\"}" -> "{'key': 'PROJ-1'}"
      [] content = "{\"errorMessages\": [], \"errors\": {}}" ->
            "{'errorMessages': [], 'errors': {}}"

\* bodies with nothing to extract from: empty, not JSON, or the empty object
NothingToExtract == {"", "<html>Bad Gateway</html>", "{}"}

C14_NotFoundCitesUrl ==
    (IsPipelineCall /\ IsResponse /\ response.status_code = 404) =>
        /\ result.kind = "raise"
        /\ result.type = "JiraNotFoundError"
        /\ result.message = <<"Resource not found: ">> \o sent.url
        /\ Contains(result.message, sent.url)
        /\ endpoint = IssueEndpoint =>
              Text(result.message) = "Resource not found: /rest/api/2/issue/PROJ-999"
        /\ (HasAbsoluteScheme(endpoint) \/ StartsWith(endpoint, RestPrefix)) =>
              Text(result.message) = "Resource not found: " \o Text(endpoint)

C14_Witness ==
    /\ op = "_request"
    /\ args.method = "GET"
    /\ endpoint = IssueEndpoint
    /\ IsResponse /\ response.status_code = 404
    /\ Text(result.message) = "Resource not found: /rest/api/2/issue/PROJ-999"

\* the error type each status maps to
ErrorTypeOf(status) ==
    CASE status = 400 -> "JiraValidationError"
      [] status = 401 -> "JiraAuthenticationError"
      [] status = 403 -> "JiraPermissionError"
      [] status = 404 -> "JiraNotFoundError"
      [] status = 429 -> "JiraRateLimitError"
      [] OTHER -> "JiraAPIError"

\* C15: every error _request raises for a response carries the parsed body
\* when the body parses and None when it does not, and the type of the error
\* depends on the status alone: a missing or unparseable body neither
\* changes it nor raises something else.
C15_ErrorsCarryBody ==
    (IsPipelineCall /\ pc = "done" /\ IsResponse
        /\ response.status_code \notin {200, 201, 204}) =>
        /\ result.kind = "raise"
        /\ result.type = ErrorTypeOf(response.status_code)
        /\ result.status_code = Some(response.status_code)
        /\ result.response_data = JsonLoads(response.content)
        /\ response.content \in {"", "<html>Bad Gateway</html>"} =>
              result.response_data = None
        /\ response.content = "{\"message\": \"bad request\"}" =>
              result.response_data = Some(Dict(None, None, Some("bad request"), None))

C15_Witness ==
    /\ IsPipelineCall /\ pc = "done" /\ IsResponse
    /\ response.status_code = 429
    /\ response.content = "<html>Bad Gateway</html>"
    /\ result.type = "JiraRateLimitError"
    /\ result.response_data = None

JiraErrorTypes ==
    {"JiraAPIError", "JiraAuthenticationError", "JiraNotFoundError",
     "JiraPermissionError", "JiraValidationError", "JiraRateLimitError"}

\* C16: every failure of a client operation reaches the caller as a
\* JiraAPIError or one of its subclasses.
C16_FailuresAreJiraErrors ==
    (pc = "done" /\ result.kind = "raise") => result.type \in JiraErrorTypes

\* C17: with a personal access token the Authorization header is
\* "Bearer <token>"; without one it is "Basic " and the base64 of
\* "username:api_token"; which of the two depends on the token alone.
C17_AuthHeader ==
    Text(headers[HAuthorization]) =
        IF config.personal_access_token # None THEN "Bearer pat"
        ELSE IF config.username = <<"a", "l">> THEN "Basic YWw6dDBr"
        ELSE "Basic Ym9iOnQwaw=="

C17_Witness ==
    /\ config.username = <<"b", "o", "b">>
    /\ config.personal_access_token = None
    /\ Text(headers[HAuthorization]) = "Basic Ym9iOnQwaw=="
    /\ pc = "done"

\* C18: self.headers is the mapping computed at construction after every
\* sequence of _request calls (with or without files, with retries) and
\* add_attachment calls.
C18_HeadersFrame ==
    /\ DOMAIN headers = {HAccept, HContentType, HAuthorization}
    /\ headers[HAccept] = JsonType
    /\ headers[HContentType] = JsonType
    /\ headers = GetAuthHeaders(config)

C18_Witness ==
    /\ op = "_request"
    /\ ArgTruthy(args.files)
    /\ pc = "done"
    /\ retry_count = 1
    /\ headers[HContentType] = JsonType

\* C19: a request with a file payload goes out as multipart without the
\* JSON Content-Type header; without a file payload the JSON body is sent
\* if there is one; no request has both a JSON-encoded body and files.
C19_FileUploadHeaders ==
    (op = "_request" /\ attempts > 0) =>
        /\ ArgTruthy(args.files) =>
              /\ sent.body = "multipart"
              /\ sent.headers[HContentType] # JsonType
        /\ (~ArgTruthy(args.files) /\ ArgTruthy(args.json_data)) => sent.body = "json"
        /\ ~(sent.body = "json" /\ ArgTruthy(args.files))

\* number of items of a joined list
NumJoined(joined) == (Len(joined) + 1) \div 2

CloudSearchNoFields ==
    /\ op = "search_issues"
    /\ IsCloud(config)
    /\ opargs[1] = None
    /\ attempts > 0

\* C20 as stated: a cloud search without fields sends the 13 default fields
\* to /rest/api/3/search/jql.
C20_Original ==
    CloudSearchNoFields =>
        /\ Text(sent.url) = "/rest/api/3/search/jql"
        /\ sent.params[1].fields # None
        /\ NumJoined(sent.params[1].fields[1]) = 13

\* C20 (amended): a cloud search without fields sends the 14 default fields
\* to /rest/api/3/search/jql.
C20_CloudSearchDefaults ==
    CloudSearchNoFields =>
        /\ sent.method = "GET"
        /\ Text(sent.url) = "/rest/api/3/search/jql"
        /\ sent.params[1].fields # None
        /\ NumJoined(sent.params[1].fields[1]) = 14
        /\ Text(sent.params[1].fields[1]) =
              "summary,status,priority,issuetype,assignee,reporter,created,updated,description,labels,components,project,resolution,resolutiondate"

C20_Witness ==
    /\ CloudSearchNoFields
    /\ pc = "done"
    /\ result.kind = "return"
    /\ Text(sent.url) = "/rest/api/3/search/jql"

LegacySearch ==
    /\ op = "search_issues"
    /\ ~IsCloud(config)
    /\ attempts > 0

\* C21: a search on a self-hosted instance goes to /search, resolved to
\* /rest/api/2/search, and its parameters have a fields key only if the
\* caller supplied a non-empty list: none without a fields argument.
C21_LegacySearch ==
    LegacySearch =>
        /\ Text(endpoint) = "/search"
        /\ Text(sent.url) = "/rest/api/2/search"
        /\ sent.params # None
        /\ opargs[1] = None => sent.params[1].fields = None
        /\ opargs[1] = Some(<<>>) => sent.params[1].fields = None
        /\ sent.params[1].fields # None =>
              /\ opargs[1] = Some(<<"summary", "status">>)
              /\ Text(sent.params[1].fields[1]) = "summary,status"
        /\ opargs[1] = Some(<<"summary", "status">>) => sent.params[1].fields # None

C21_Witness ==
    /\ LegacySearch
    /\ opargs[1] = None
    /\ sent.params[1].fields = None
    /\ Text(sent.url) = "/rest/api/2/search"
    /\ pc = "done"

\* the step that issues a retry: an attempt after the first one
IsRetrySend == pc = "send" /\ pc' = "wait" /\ attempts >= 1

C22_Step ==
    /\ IsRetrySend =>
          /\ sent' = sent
          /\ sent'.method = args.method
          /\ endpoint' = endpoint
          /\ args' = args
    /\ (pc = "backoff" /\ pc' = "send") =>
          /\ endpoint' = endpoint
          /\ args' = args
          /\ sent' = sent
          /\ retry_count' = retry_count + 1

\* C22: every retry of a _request call hands the HTTP layer the method,
\* URL, query parameters, JSON body and file payload of the first attempt;
\* between attempts only the retry counter changes.
C22_SameDescriptor == [][C22_Step]_vars

C22_Witness ==
    /\ op = "_request"
    /\ ArgTruthy(args.files)
    /\ ArgTruthy(args.json_data)
    /\ attempts = 2
    /\ sent.body = "multipart"
    /\ pc = "done"

\* C23: every _request call that has ended made at most max_retries + 1
\* attempts and ended with a parsed JSON result or a JiraAPIError.
C23_EndsClassified ==
    (op = "_request" /\ pc = "done") =>
        /\ attempts <= max_retries + 1
        /\ \/ result.kind = "return"
           \/ result.kind = "raise" /\ result.type \in JiraErrorTypes

-----------------------------------------------------------------------------
(* Properties of the glue layer (checked under ServerSpec).                *)

\* the tools that write
WriteToolNames ==
    { "jira_create_issue", "jira_update_issue", "jira_delete_issue",
      "jira_batch_create_issues", "jira_add_comment", "jira_transition_issue",
      "jira_create_sprint", "jira_update_sprint", "jira_link_to_epic",
      "jira_create_issue_link", "jira_remove_issue_link",
      "jira_create_remote_issue_link", "jira_add_worklog", "jira_create_version",
      "jira_batch_create_versions", "jira_add_attachment" }

ToolInvoked == tool.pc # "none"

\* the tool returned a string that has the given phrase in it
Returned(phrase) ==
    /\ tool.pc = "done"
    /\ tool.outcome.kind = "string"
    /\ \E i \in 1..Len(tool.outcome.text) : tool.outcome.text[i] = phrase

\* the invocation ended at a gate: a rejection string and no client call
RejectedAtGate ==
    /\ Returned("read-only mode") \/ Returned("disabled by configuration")
    /\ tool.requests = 0
    /\ tool.step = 0

\* C24: while config.read_only is true every write tool returns a rejection
\* string without awaiting any client method, a preparatory GET included.
C24_ReadOnlyRejects ==
    (ToolInvoked /\ server.read_only /\ tool.name \in WriteToolNames) =>
        RejectedAtGate

C24_Witness ==
    /\ ToolInvoked
    /\ server.read_only
    /\ server.enabled_tools = None
    /\ tool.pc = "done"
    /\ tool.name = "jira_transition_issue"
    /\ Returned("read-only mode")
    /\ tool.requests = 0

\* C25: with read_only_override true and config.read_only false every write
\* tool is rejected and awaits no client method.
C25_OverrideRejects ==
    (ToolInvoked /\ server.read_only_override = Some(TRUE) /\ ~server.read_only
        /\ tool.name \in WriteToolNames) =>
        /\ server.context_read_only = Some(TRUE)
        /\ RejectedAtGate

\* the tool names each enabled_tools setting lists
AllowList(enabled_tools) ==
    CASE enabled_tools = Some(<<"jira_get_issue">>) -> {"jira_get_issue"}
      [] enabled_tools = Some(<<" ", "jira_delete_issue", " ", ",", "jira_search", ",">>) ->
            {"jira_delete_issue", "jira_search"}
      [] enabled_tools = Some(<<"jira_add_attachment", ",", "jira_get_link_types", ",",
                                "jira_transition_issue">>) ->
            {"jira_add_attachment", "jira_get_link_types", "jira_transition_issue"}
      [] OTHER -> {}

\* C26: with a non-empty allow-list a tool outside it returns the "disabled
\* by configuration" string and awaits no client method, a tool inside it is
\* not rejected as disabled; with an allow-list that is unset, empty or only
\* commas and blanks no tool is rejected as disabled.
C26_AllowList ==
    ToolInvoked =>
        LET allowed == AllowList(server.enabled_tools)
        IN  /\ (allowed # {} /\ tool.name \notin allowed) =>
                  /\ Returned("disabled by configuration")
                  /\ tool.requests = 0
                  /\ tool.step = 0
            /\ tool.name \in allowed => ~Returned("disabled by configuration")
            /\ allowed = {} => ~Returned("disabled by configuration")

C26_Witness ==
    /\ ToolInvoked
    /\ server.enabled_tools =
          Some(<<" ", "jira_delete_issue", " ", ",", "jira_search", ",">>)
    /\ tool.name = "jira_get_agile_boards"
    /\ Returned("disabled by configuration")
    /\ tool.requests = 0

\* C27: every tool invocation ends by returning a string, whatever the
\* client call did.
C27_ToolsReturnStrings ==
    (ToolInvoked /\ tool.pc = "done") => tool.outcome.kind = "string"

\* the JiraClients constructed so far
ConstructedClients ==
    {c \in {server.temp_client, server.client} : c.state # "none"}

\* C28: once the lifespan has ended every JiraClient that was constructed
\* has been closed exactly once, and no request went through a closed
\* client.
C28_ClientsClosedOnce ==
    /\ \A c \in ConstructedClients : c.closes <= 1 /\ ~c.used_closed
    /\ server.phase = "stopped" =>
          \A c \in ConstructedClients : c.state = "closed" /\ c.closes = 1

-----------------------------------------------------------------------------
(* Properties of concurrent calls (checked under ConcurrentSpec).          *)

\* the last response of a frame
LastResponse(f) == f.responses[Len(f.responses)]

\* the failures of a frame before its last response were all retried
EarlierRetried(f) ==
    \A i \in 1..(Len(f.responses) - 1) : FailureKind(f.responses[i]) # {}

\* the state of one call as its own attempts determine it
OwnHistory(f) ==
    /\ f.attempts = Len(f.responses) + (IF f.pc = "wait" THEN 1 ELSE 0)
    /\ f.attempts <= max_retries + 1
    /\ f.retry_count = Len(f.sleeps)
    /\ f.retry_count =
          Len(f.responses) - (IF f.pc \in {"backoff", "done"} THEN 1 ELSE 0)
    /\ f.sleeps = SubSeq(ExpectedDelays, 1, Len(f.sleeps))
    /\ EarlierRetried(f)
    /\ f.pc = "backoff" =>
          /\ FailureKind(LastResponse(f)) # {}
          /\ Len(f.responses) <= max_retries
    /\ f.pc = "done" =>
          LET last == LastResponse(f)
          IN  /\ (last.kind = "response" /\ last.status_code = 200) =>
                    f.result = Return(Dict(None, None, None, Some("PROJ-1")))
              /\ (last.kind = "response" /\ last.status_code = 404) =>
                    /\ f.result.kind = "raise"
                    /\ f.result.type = "JiraNotFoundError"
              /\ (last.kind = "response" /\ last.status_code = 429) =>
                    /\ f.result.kind = "raise"
                    /\ f.result.type = "JiraRateLimitError"
                    /\ Len(f.responses) = max_retries + 1
              /\ last.kind = "exception" =>
                    /\ f.result.kind = "raise"
                    /\ f.result.type = "JiraAPIError"
                    /\ Len(f.responses) = max_retries + 1

C29_Inv == \A c \in CallIds : calls[c].pc # "idle" => OwnHistory(calls[c])

C29_Step ==
    /\ \A c, d \in CallIds : (c # d /\ calls'[c] # calls[c]) => calls'[d] = calls[d]
    /\ max_retries' = max_retries
    /\ headers' = headers
    /\ config' = config

\* C29: in every interleaving of the calls on one client, the retry counter,
\* the number of attempts, the backoff delays and the outcome of each call
\* are those its own responses determine, and a step of one call changes
\* nothing of another call nor of the client.
C29_CallsIndependent == []C29_Inv /\ [][C29_Step]_vars

C29_Witness ==
    /\ calls[1].pc = "done"
    /\ calls[1].attempts = 2
    /\ calls[1].result.kind = "raise"
    /\ calls[1].result.type = "JiraRateLimitError"
    /\ calls[2].pc = "done"
    /\ calls[2].peer_suspended
    /\ calls[2].attempts = 1
    /\ calls[2].result.kind = "return"

\* some step of call c
CallStep(c) ==
    \/ \E ep \in ConcurrentEndpoints : CEnter(c, ep)
    \/ CSend(c)
    \/ \E r \in ConcurrentResponses : CReceive(c, r[1], r[2])
    \/ \E exc \in ConcurrentExceptions : CTransportError(c, exc)
    \/ CBackoff(c)

\* C30: while a call is suspended in its backoff sleep or on the network
\* every other call can take its next step (start, attempt, complete); in
\* one call an attempt is in flight only after each earlier attempt failed
\* and its backoff sleep finished.
C30_NoBlocking ==
    /\ \A c, d \in CallIds :
          (c # d /\ Suspended(calls[c])) => ENABLED CallStep(d)
    /\ \A c \in CallIds :
          calls[c].pc = "wait" =>
              /\ Len(calls[c].responses) = calls[c].attempts - 1
              /\ Len(calls[c].sleeps) = calls[c].attempts - 1
              /\ \A i \in 1..Len(calls[c].responses) :
                    FailureKind(calls[c].responses[i]) # {}

C30_Witness ==
    /\ calls[1].pc = "backoff"
    /\ calls[1].attempts = 1
    /\ calls[2].pc = "done"
    /\ calls[2].peer_suspended
    /\ calls[2].attempts = 2
    /\ \A d \in CallIds : d \in {1, 2} \/ calls[d].pc = "idle"

-----------------------------------------------------------------------------
(* Cancellation: the caller's task is cancelled while the call is          *)
(* suspended in an await of _request or of _backoff.                       *)

\* asyncio.CancelledError, raised at the await the call is suspended on
Cancelled == "CancelledError"

\* the cancellation caught by the except clause of a timeout
CancelAsTimeout(resp, rc, maxr) == HandleException("TimeoutException", rc, maxr)

\* Where the CancelledError goes.  Raised by client.request, or by the sleep
\* of a _backoff awaited inside the try block (429, >= 500), it passes the
\* two except clauses; raised by the sleep of a _backoff awaited inside an
\* except clause, it leaves the handler as it is.
CancelOutcome(resp, rc, maxr) ==
    IF resp.kind = "exception"
    THEN PropagateException(Cancelled)
    ELSE HandleException(Cancelled, rc, maxr)

\* The task is cancelled at await self.client.request(...) or at
\* await asyncio.sleep(delay); the sleep does not complete.
Cancel ==
    /\ pc \in {"wait", "backoff"}
    /\ seen' = seen \cup {"cancel"}
    /\ LET out == CancelOutcome(IF pc = "wait" THEN NoResponse ELSE response,
                                retry_count, max_retries)
       IN  IF out.kind = "retry"
           THEN pc' = "backoff" /\ UNCHANGED result
           ELSE pc' = "done" /\ result' = out
    /\ UNCHANGED <<client, outside, endpoint, retry_count, response, attempts, sleeps,
                   headers, op, opargs, args, sent>>

CancelInit ==
    \E maxr \in MinRetries..MaxClientRetries : Constructed(DefaultConfig, maxr)

\* The request pipeline with a caller that may cancel.
CancelNext ==
    \/ \E ep \in Endpoints : Call(ep, PlainGet)
    \/ Send
    \/ \E status \in Statuses, content \in Bodies : Receive(status, content)
    \/ \E exc \in Exceptions : TransportError(exc)
    \/ Backoff
    \/ Cancel

CancelSpec == CancelInit /\ [][CancelNext]_vars

-----------------------------------------------------------------------------
(* Properties of cancellation.                                             *)

WasCancelled == "cancel" \in seen

C31_Inv ==
    WasCancelled =>
        /\ pc = "done"
        /\ result.kind = "raise"
        /\ result.type = Cancelled
        /\ ~ENABLED Send
        /\ ~ENABLED Backoff

C31_Step ==
    /\ (WasCancelled' /\ ~WasCancelled) =>
           /\ pc \in {"wait", "backoff"}
           /\ attempts' = attempts
           /\ sleeps' = sleeps
    /\ (WasCancelled /\ WasCancelled') => (attempts' = attempts /\ sleeps' = sleeps)

\* C31: a call cancelled while it waits on the network or sleeps in backoff
\* ends with the CancelledError itself: the cancellation is not answered
\* with a retry or a timeout/network JiraAPIError, the pending sleep is not
\* completed, and the call issues no further HTTP attempt.
C31_CancelPropagates == []C31_Inv /\ [][C31_Step]_vars

\* a call cancelled in its backoff sleep, with retries left
C31_Witness ==
    /\ WasCancelled
    /\ pc = "done"
    /\ retry_count < max_retries
    /\ response.kind # "none"
    /\ attempts = 1
    /\ sleeps = <<>>

-----------------------------------------------------------------------------
(* Properties of the attachment upload.                                    *)

UploadSent == op = "add_attachment" /\ attempts = 1

\* C32: the POST of add_attachment is passed a header set of its own, made
\* of X-Atlassian-Token: no-check, Accept: application/json and the client's
\* Authorization header and nothing else, and goes to
\* /rest/api/2/issue/{key}/attachments.
C32_UploadHeaderSet ==
    UploadSent =>
        /\ sent.method = "POST"
        /\ Text(sent.url) = "/rest/api/2/issue/" \o Text(opargs[1]) \o "/attachments"
        /\ sent.kw_headers # None
        /\ LET h == sent.kw_headers[1]
           IN  /\ DOMAIN h = {"Authorization", "X-Atlassian-Token", "Accept"}
               /\ Text(h["X-Atlassian-Token"]) = "no-check"
               /\ Text(h["Accept"]) = "application/json"
               /\ h["Authorization"] = GetAuthHeaders(config)["Authorization"]
               /\ h # headers

\* an upload to P-1 by a client with a personal access token
C32_Witness ==
    /\ UploadSent
    /\ pc = "wait"
    /\ UsePat(config)
    /\ Text(sent.url) = "/rest/api/2/issue/P-1/attachments"

-----------------------------------------------------------------------------
(* Properties of single tools (checked under ServerSpec).                  *)

\* the tool of the given name ran to its end past both gates
RanPastGates(name) ==
    /\ ToolInvoked
    /\ tool.name = name
    /\ tool.pc = "done"
    /\ ~RejectedAtGate

\* C33: jira_create_issue, enabled and not read-only, issues the POST that
\* creates the issue: an invocation that passed the gates has sent at least
\* one request through the client, and does not end in an error raised
\* before any request.
C33_CreateIssuePosts ==
    RanPastGates("jira_create_issue") =>
        /\ tool.requests >= 1
        /\ ~Returned("TypeError")

-----------------------------------------------------------------------------
(* Properties of the retry budget and of the order of sleeps and attempts  *)
(* (checked under Spec).                                                   *)

\* the failure kind of the last attempt
LastKind == FailureKind(response)

\* the error a failure raises when it arrives with the budget used up
TerminalError(resp, n) ==
    IF resp.kind = "exception"
    THEN [type |-> "JiraAPIError", status_code |-> None,
          message |-> << (IF resp.exc = "TimeoutException"
                          THEN "Request timeout after " ELSE "Network error after "),
                         ToString(n), " attempts" >>]
    ELSE IF resp.status_code = 429
    THEN [type |-> "JiraRateLimitError", status_code |-> Some(429),
          message |-> <<"Rate limit exceeded">>]
    ELSE [type |-> "JiraAPIError", status_code |-> Some(resp.status_code),
          message |-> <<"Server error: ", ToString(resp.status_code)>>]

\* C34: 429s, statuses >= 500, timeouts and network errors draw on one
\* budget: whatever their mix, a call makes at most max_retries + 1
\* attempts, a retryable failure is retried exactly while attempts are
\* left, and the error that ends the call is the one of the failure of the
\* last attempt, whatever kinds of failure came before it.
C34_SharedBudget ==
    /\ attempts <= max_retries + 1
    /\ (response.kind # "none" /\ LastKind # {}) =>
          /\ pc = "backoff" => attempts <= max_retries
          /\ pc = "done" =>
                /\ attempts = max_retries + 1
                /\ result.kind = "raise"
                /\ result.type = TerminalError(response, attempts).type
                /\ result.status_code = TerminalError(response, attempts).status_code
                /\ result.message = TerminalError(response, attempts).message

\* three failures of three other kinds, then a 429, with max_retries = 3
C34_Witness ==
    /\ pc = "done"
    /\ max_retries = 3
    /\ attempts = 4
    /\ seen = {"429", "5xx", "timeout", "network"}
    /\ IsResponse /\ response.status_code = 429
    /\ result.kind = "raise" /\ result.type = "JiraRateLimitError"

\* sleeps and attempts of the call in progress, by position in the frame:
\* about to send, as many sleeps as attempts; from the attempt on, one less
C35_Inv ==
    pc # "idle" =>
        /\ Len(sleeps) = retry_count
        /\ pc = "send" => attempts = Len(sleeps)
        /\ pc \in {"wait", "backoff", "done"} => attempts = Len(sleeps) + 1

C35_Step ==
    /\ (pc # "idle" /\ pc # "done" /\ attempts' = attempts + 1) =>
          /\ sleeps' = sleeps
          /\ Len(sleeps) = attempts
          /\ pc = "send"
    /\ (pc # "idle" /\ pc # "done" /\ sleeps' # sleeps) =>
          /\ Len(sleeps') = Len(sleeps) + 1
          /\ attempts' = attempts
          /\ attempts >= 1
          /\ pc = "backoff" /\ pc' = "send"
    /\ (pc # "done" /\ pc' = "done") => (sleeps' = sleeps /\ pc = "wait")

\* C35: within one call sleeps and attempts alternate: no sleep before the
\* first attempt, exactly one between an attempt and the next, none between
\* the last attempt and the delivery of the result or error; the number of
\* sleeps is the number of retries.
C35_SleepsAlternate == []C35_Inv /\ [][C35_Step]_vars

\* a call that ended after three retries and three sleeps
C35_Witness ==
    /\ pc = "done"
    /\ attempts = 4
    /\ retry_count = 3
    /\ sleeps = <<1, 2, 4>>
    /\ result.kind = "return"

-----------------------------------------------------------------------------
(* Properties of add_attachment outside the pipeline (ClientSpec).         *)

-----------------------------------------------------------------------------
(* Properties of jira_transition_issue and jira_batch_get_changelogs       *)
(* (checked under ServerSpec).                                             *)

InSeq(x, seq) == \E i \in 1..Len(seq) : seq[i] = x

IsPrefix(a, b) == Len(a) <= Len(b) /\ SubSeq(b, 1, Len(a)) = a

\* an invocation of jira_transition_issue that got past the gates
Transitioning ==
    /\ ToolInvoked
    /\ tool.name = "jira_transition_issue"
    /\ ~RejectedAtGate

\* the requested name is the name of a fetched transition, letter case aside
NameMatches ==
    \E i \in 1..Len(tool.fetched) :
        Lower(tool.fetched[i].name) = Lower(tool.input)

\* C37: jira_transition_issue awaits get_transitions, then the transition
\* POST, then the comment POST when a comment is given, then the GET of the
\* issue, in that order; the transition POST (and any later call) is issued
\* only if the requested name matches a fetched transition without regard
\* to case; and when a call after the successful transition POST fails, the
\* tool ends with an error string and issues nothing further, the
\* transition staying applied.
C37_TransitionOrder ==
    Transitioning =>
        /\ \/ IsPrefix(tool.called,
                       <<"get_transitions", "transition_issue", "add_comment",
                         "get_issue">>)
           \/ IsPrefix(tool.called,
                       <<"get_transitions", "transition_issue", "get_issue">>)
        /\ InSeq("transition_issue", tool.called) =>
              /\ InSeq("get_transitions", tool.succeeded)
              /\ NameMatches
        /\ ~NameMatches => tool.requests <= 1
        /\ (InSeq("transition_issue", tool.succeeded)
              /\ Len(tool.succeeded) < Len(tool.called)) =>
              /\ Returned("Error: ")
              /\ tool.remaining = <<>>
              /\ tool.requests = Len(tool.called)

\* DONE asked for, Done fetched, the transition applied, the comment failed
C37_Witness ==
    /\ Transitioning
    /\ tool.pc = "done"
    /\ tool.input = <<"D", "O", "N", "E">>
    /\ tool.called = <<"get_transitions", "transition_issue", "add_comment">>
    /\ tool.succeeded = <<"get_transitions", "transition_issue">>
    /\ Returned("Error: ")

-----------------------------------------------------------------------------
(* The order of the two gates (checked under ServerSpec).                  *)

\* C38: in a write tool the allow-list gate comes before the read-only
\* gate: a write tool that is outside a non-empty allow-list of a read-only
\* server returns the "disabled by configuration" string, not the read-only
\* one; and a tool that returns either rejection has awaited no client
\* method.
C38_DisabledBeforeReadOnly ==
    (ToolInvoked /\ tool.name \in WriteToolNames) =>
        LET allowed == AllowList(server.enabled_tools)
        IN  /\ (server.read_only /\ allowed # {} /\ tool.name \notin allowed) =>
                  /\ Returned("disabled by configuration")
                  /\ ~Returned("read-only mode")
            /\ (Returned("disabled by configuration") \/ Returned("read-only mode")) =>
                  /\ tool.requests = 0
                  /\ tool.called = <<>>
                  /\ tool.step = 0

\* jira_create_sprint, not on the allow-list, on a read-only server
C38_Witness ==
    /\ ToolInvoked
    /\ server.read_only
    /\ server.enabled_tools = Some(<<"jira_get_issue">>)
    /\ tool.name = "jira_create_sprint"
    /\ tool.pc = "done"
    /\ Returned("disabled by configuration")
    /\ tool.called = <<>>

-----------------------------------------------------------------------------
(* The batch of changelogs (checked under ServerSpec).                     *)

\* an invocation of jira_batch_get_changelogs that got past its gate
Batching ==
    /\ ToolInvoked
    /\ tool.name = "jira_batch_get_changelogs"
    /\ ~RejectedAtGate

RECURSIVE Kept(_, _)
\* of the first keys, those whose fetch succeeded, in the order given
Kept(keys, oks) ==
    IF oks = <<>> THEN <<>>
    ELSE (IF Head(oks) THEN <<Head(keys)>> ELSE <<>>) \o Kept(Tail(keys), Tail(oks))

RECURSIVE SectionKeys(_)
\* the keys of the "## " sections of an output, in order
SectionKeys(text) ==
    IF Len(text) < 2 THEN <<>>
    ELSE IF Head(text) = "## "
    THEN <<text[2]>> \o SectionKeys(Tail(Tail(text)))
    ELSE SectionKeys(Tail(text))

\* the stripped keys of each issue_keys argument
ExpectedKeys(issue_keys) ==
    CASE issue_keys = <<"A">> -> <<"A">>
      [] issue_keys = <<"A", ",", " ", "B">> -> <<"A", "B">>
      [] issue_keys = <<"B", ",", "A", " ", ",", "C">> -> <<"B", "A", "C">>

\* C39: jira_batch_get_changelogs fetches the keys one after the other in
\* the order given; a fetch that fails does not end the batch, the keys
\* after it are fetched all the same; the tool ends only when every key has
\* been requested, and its output has one section for each key whose fetch
\* succeeded and for no other, in the order given.
C39_BatchGoesOn ==
    Batching =>
        LET keys == ExpectedKeys(tool.input)
        IN  /\ tool.requests = Len(tool.oks)
            /\ tool.requests <= Len(keys)
            /\ tool.pc = "calling" => tool.requests < Len(keys)
            /\ tool.pc = "done" =>
                  /\ tool.requests = Len(keys)
                  /\ tool.outcome.kind = "string"
                  /\ Head(tool.outcome.text) = "# Issue Changelogs"
                  /\ SectionKeys(tool.outcome.text) = Kept(keys, tool.oks)

\* "B,A ,C" with the fetch of A failing: sections for B and C
C39_Witness ==
    /\ Batching
    /\ tool.pc = "done"
    /\ tool.input = <<"B", ",", "A", " ", ",", "C">>
    /\ tool.oks = <<TRUE, FALSE, TRUE>>
    /\ tool.outcome.text = <<"# Issue Changelogs", "## ", "B", "## ", "C">>

====
